---- MODULE Spec2Model ----
(***************************************************************************)
(* A model of the real-time audio core of the two-deck DJ engine:          *)
(* MasterClock, the per-deck AudioClock, the Deck (load, transport, ring   *)
(* buffer, fill worker, key-analysis worker) and the mixer's audio         *)
(* callback.  Times are counted in frames (seconds * sample_rate), sample  *)
(* amplitudes in hundredths of full scale.                                 *)
(***************************************************************************)
EXTENDS Integers, Sequences, FiniteSets, TLC

(***************************************************************************)
(* Bounds of the model.                                                    *)
(***************************************************************************)
SampleRate == 25        \* frames per second of the scaled engine
TrackFrames == 3        \* frames of every readable file
BlockFrames == 2        \* frames the device asks for in one callback
FillTarget == 3         \* the fill worker's large chunk (8192 in the source)
MaxMaster == 4          \* the audio thread stops once the master clock counted this much
MaxUnderruns == 2       \* the audio thread stops once a deck counted this many underruns
MaxLoads == 2           \* load_track calls per deck

Decks == {"A", "B"}
Files == {1, 2, 3}                  \* file 3 cannot be decoded
None == 0
Silence == 0

Min(a, b) == IF a < b THEN a ELSE b
Max(a, b) == IF a > b THEN a ELSE b
Abs(a) == IF a < 0 THEN 0 - a ELSE a

VARIABLES
    mc,             \* the MasterClock singleton
    clock,          \* clock[d]: the deck's AudioClock
    deck,           \* deck[d]: the Deck's fields
    ring,           \* ring[d]: the deck's ring buffer (a deque of frames)
    buffer_lock,    \* buffer_lock[d]: the thread holding Deck.buffer_lock, or "free"
    fill,           \* fill[d]: the deck's fill worker thread
    audio,          \* the audio thread (the device callback)
    ctl,            \* the control thread, inside seek_to or stop
    mixer,          \* the mixer's controls
    outdata,        \* the block the last callback wrote to the device
    BMP_CACHE,      \* the in-memory analysis cache, by track UID
    sidecar,        \* the analysis sidecar file beside each audio file
    workers,        \* the running key-analysis worker threads
    sync,           \* the control thread's sync_to_deck call and what it returned
    tps,            \* the TempoPhaseSync singleton
    tm,             \* the TempoMapManager, the tempo-map file and the last call made
    batch,          \* the BatchBpmAnalyzer thread and what it has emitted
    lk              \* the locks' holders and each thread's lock operations still to do

vars == <<mc, clock, deck, ring, buffer_lock, fill, audio, ctl, mixer, outdata,
          BMP_CACHE, sidecar, workers, sync, tps, tm, batch, lk>>

(***************************************************************************)
(* MasterClock                                                             *)
(***************************************************************************)
MasterClockInit ==
    [audio_samples_total |-> 0, is_running |-> FALSE,
     latency_ms |-> 0, estimated_latency_samples |-> 0]

MasterClockStart(m, latency_ms) ==
    IF ~m.is_running
    THEN [audio_samples_total |-> 0, is_running |-> TRUE, latency_ms |-> latency_ms,
          estimated_latency_samples |-> (latency_ms * SampleRate) \div 1000]
    ELSE m

MasterClockStop(m) == [m EXCEPT !.is_running = FALSE]

MasterClockReset(m) == [m EXCEPT !.audio_samples_total = 0]

MasterClockSetLatency(m, latency_ms) ==
    [m EXCEPT !.latency_ms = latency_ms,
              !.estimated_latency_samples = (latency_ms * SampleRate) \div 1000]

MasterClockAddMutant(m, frames_processed) == m

MasterClockAdd(m, frames_processed) ==
    [m EXCEPT !.audio_samples_total = @ + frames_processed]

(***************************************************************************)
(* AudioClock                                                              *)
(***************************************************************************)
AudioClockInit ==
    [samples_played |-> 0, paused |-> TRUE, base_samples |-> 0, start_master_samples |-> 0]

AudioClockReset(c) == AudioClockInit

AudioClockOnAudioCallback(c, frames) ==
    IF c.paused THEN c ELSE [c EXCEPT !.samples_played = @ + frames]

AudioClockPlayFromSamples(c, start_samples, m) ==
    [samples_played |-> 0, paused |-> FALSE, base_samples |-> start_samples,
     start_master_samples |-> m.audio_samples_total]

AudioClockPause(c) == [c EXCEPT !.paused = TRUE]

\* a clock that counts the frames its own deck served
NowSamplesMutant(c, m) == c.base_samples + c.samples_played

\* now_seconds() * sr
NowSamples(c, m) ==
    IF c.paused
    THEN c.base_samples + c.samples_played
    ELSE c.base_samples + (m.audio_samples_total - c.start_master_samples)

(***************************************************************************)
(* Analysis cache (cache_manager.py).  A track's UID is its file; an       *)
(* AnalysisResult is [bmp, confidence, key], 0 standing for None.          *)
(***************************************************************************)
NoEntry == [bmp |-> None, confidence |-> None, key |-> None]

TrueBpm(f) == 100 + 10 * f
TrueKey(f) == f
Readable(f) == f # 3
BpmOnly(f) == [bmp |-> TrueBpm(f), confidence |-> 90, key |-> None]
BpmAndKey(f) == [bmp |-> TrueBpm(f), confidence |-> 90, key |-> TrueKey(f)]

\* store_bmp: only a result with a BPM is kept
store_bmp(cache, uid, result) ==
    IF result.bmp > 0 THEN [cache EXCEPT ![uid] = result] ELSE cache

\* load_from_file_cache: the sidecar counts only when it holds a BPM
load_from_file_cache(f) == IF sidecar[f].bmp > 0 THEN sidecar[f] ELSE NoEntry

\* load_track lines 207-210: memory first, then the sidecar
CachedResult(f) == IF BMP_CACHE[f] # NoEntry THEN BMP_CACHE[f] ELSE load_from_file_cache(f)

CacheAfterLookup(f) ==
    IF BMP_CACHE[f] # NoEntry THEN BMP_CACHE
    ELSE store_bmp(BMP_CACHE, f, load_from_file_cache(f))

(***************************************************************************)
(* Deck                                                                    *)
(***************************************************************************)
\* audio_data of file f, after decoding: frame i at index i (1-based here)
AudioData(f) ==
    [i \in 1..TrackFrames |-> (IF i % 2 = 1 THEN 1 ELSE -1) * (40 * f + 35 * i)]

\* Ratios are fixed-point: tempo_ratio, rate_target and the stretch engine's tempo
\* in units of 1/(Milli * RampSteps), so that the eight ramp steps between two
\* ratios given in thousandths are exact; nudge ratios in thousandths.
Milli == 1000
RampSteps == 8
TempoOne == Milli * RampSteps

\* Deck.__init__ with its TimeStretchEngine; `available` is PYRUBBERBAND_AVAILABLE,
\* fixed when time_stretch.py is imported
DeckBuilt(available) ==
    [audio_data |-> None, path |-> None, track_path |-> None, current_uid |-> None,
     load_token |-> 0,
     detected_bpm |-> 0, bmp_confidence |-> None, bpm_status |-> "none",
     key_detected |-> None, key_status |-> "none",
     is_playing |-> FALSE, is_paused |-> FALSE, position |-> 0,
     should_stop_worker |-> FALSE, underruns |-> 0,
     tempo_ratio |-> TempoOne, rate_target |-> TempoOne, bpm_target |-> None,
     engine_tempo |-> TempoOne, pitch_range_key |-> "8",
     nudge_ratio |-> Milli, nudge_target |-> Milli, nudge_active |-> FALSE,
     key_lock |-> FALSE, key_lock_enabled |-> FALSE,
     high_quality_available |-> available]

DeckInit == DeckBuilt(TRUE)

\* a lookup that finds nothing, whatever the cache holds
LoadLookupMutant(dk, f) ==
    [dk EXCEPT !.path = f, !.current_uid = f, !.load_token = @ + 1,
               !.detected_bpm = 0, !.bmp_confidence = None, !.bpm_status = "pending",
               !.key_detected = None, !.key_status = "pending"]

\* load_track lines 195-237: path, UID, token and the cache lookup
LoadLookup(dk, f) ==
    LET c == CachedResult(f) IN
    [dk EXCEPT !.path = f, !.current_uid = f, !.load_token = @ + 1,
               !.detected_bpm = IF c.bmp > 0 THEN c.bmp ELSE 0,
               !.bmp_confidence = IF c.bmp > 0 THEN c.confidence ELSE None,
               !.bpm_status = IF c.bmp > 0 THEN "ok" ELSE "pending",
               !.key_detected = IF c.key # None THEN c.key ELSE None,
               !.key_status = IF c.key # None THEN "ok" ELSE "pending"]

\* load_track lines 239-276: the decoded buffer replaces the old one, transport reset
LoadDecoded(dk, f) ==
    [dk EXCEPT !.audio_data = f, !.track_path = f,
               !.position = 0, !.is_playing = FALSE, !.is_paused = FALSE,
               !.rate_target = TempoOne, !.bpm_target = None]

\* what load_track returns: sf.read must succeed, and _start_bmp_analysis must not
\* raise (it names a method, _analyze_bmp_worker, that the class does not define)
LoadReturnsTrue(f) == Readable(f) /\ CachedResult(f).bmp > 0

LoadTrack(d, f) ==
    /\ ctl.pc = "idle"
    /\ deck[d].load_token < MaxLoads
    /\ LET looked == LoadLookup(deck[d], f) IN
       /\ BMP_CACHE' = CacheAfterLookup(f)
       /\ IF ~Readable(f)
          THEN /\ deck' = [deck EXCEPT ![d] = looked]
               /\ UNCHANGED <<clock, workers>>
          ELSE /\ deck' = [deck EXCEPT ![d] = LoadDecoded(looked, f)]
               /\ clock' = [clock EXCEPT ![d] = AudioClockReset(clock[d])]
               /\ workers' =
                    IF looked.bpm_status # "pending" /\ looked.key_status = "pending"
                    THEN workers \cup {[d |-> d, token |-> looked.load_token, file |-> f,
                                        pc |-> "analyze", result |-> None]}
                    ELSE workers
    /\ UNCHANGED <<mc, ring, buffer_lock, fill, audio, ctl, mixer, outdata, sidecar,
                   sync, tps, tm, batch, lk>>

(***************************************************************************)
(* The key-analysis worker thread (_analyze_key_worker, on_key_detected)   *)
(***************************************************************************)
Retire(w) == workers \ {w}
Advance(w, pc, result) == (workers \ {w}) \cup {[w EXCEPT !.pc = pc, !.result = result]}

\* lines 610-623: analyze_key returns, then the worker's own token check
KeyWorkerAnalyzed(w, ok) ==
    /\ w \in workers /\ w.pc = "analyze"
    /\ IF w.token # deck[w.d].load_token
       THEN workers' = Retire(w) /\ UNCHANGED deck
       ELSE IF ok
       THEN workers' = Advance(w, "callback", TrueKey(w.file)) /\ UNCHANGED deck
       ELSE /\ workers' = Retire(w)
            /\ deck' = [deck EXCEPT ![w.d].key_status = "none"]
    /\ UNCHANGED <<mc, clock, ring, buffer_lock, fill, audio, ctl, mixer, outdata,
                   BMP_CACHE, sidecar, sync, tps, tm, batch, lk>>

\* on_key_detected lines 923-925: apply-if-current
KeyCallbackCheck(w) ==
    /\ w \in workers /\ w.pc = "callback"
    /\ workers' = IF w.token # deck[w.d].load_token THEN Retire(w)
                  ELSE Advance(w, "apply", w.result)
    /\ UNCHANGED <<mc, clock, deck, ring, buffer_lock, fill, audio, ctl, mixer, outdata,
                   BMP_CACHE, sidecar, sync, tps, tm, batch, lk>>

\* on_key_detected lines 943-960: the result merged with the cached BPM of current_uid
MergedKeyResult(dk, key) ==
    LET existing == BMP_CACHE[dk.current_uid] IN
    [bmp |-> existing.bmp, confidence |-> existing.confidence, key |-> key]

\* on_key_detected lines 932-966
KeyCallbackApply(w) ==
    /\ w \in workers /\ w.pc = "apply"
    /\ deck' = [deck EXCEPT ![w.d].key_detected = w.result, ![w.d].key_status = "ok"]
    /\ LET dk == deck[w.d]
           updated == MergedKeyResult(dk, w.result) IN
       /\ BMP_CACHE' = IF dk.current_uid # None
                       THEN store_bmp(BMP_CACHE, dk.current_uid, updated) ELSE BMP_CACHE
       /\ sidecar' = IF dk.current_uid # None /\ dk.track_path # None
                     THEN [sidecar EXCEPT ![dk.track_path] = updated] ELSE sidecar
    /\ workers' = Retire(w)
    /\ UNCHANGED <<mc, clock, ring, buffer_lock, fill, audio, ctl, mixer, outdata,
                   sync, tps, tm, batch, lk>>

\* on_bpm_detected lines 883-914: apply-if-current, then the deck fields, then a
\* fresh AnalysisResult (key_note = None) stored under current_uid and written next
\* to track_path.  Its only caller in the class is _analyze_bpm_worker (line 877),
\* which _start_bmp_analysis fails to start (the thread target at line 584 is
\* misspelt); the handler is modelled here as the entry point it is.
on_bpm_detected(dk, bpm, confidence) ==
    [dk EXCEPT !.detected_bpm = bpm, !.bmp_confidence = confidence,
               !.bpm_status = IF bpm > 0 THEN "ok" ELSE "none"]

BpmResult(bpm, confidence) == [bmp |-> bpm, confidence |-> confidence, key |-> None]

OnBpmDetected(d, bpm, confidence, token) ==
    /\ IF token # deck[d].load_token
       THEN UNCHANGED <<deck, BMP_CACHE, sidecar>>
       ELSE LET dk == deck[d]
                result == BpmResult(bpm, confidence) IN
            /\ deck' = [deck EXCEPT ![d] = on_bpm_detected(dk, bpm, confidence)]
            /\ BMP_CACHE' = IF dk.current_uid # None /\ bpm > 0
                            THEN store_bmp(BMP_CACHE, dk.current_uid, result)
                            ELSE BMP_CACHE
            /\ sidecar' = IF dk.current_uid # None /\ bpm > 0 /\ dk.track_path # None
                          THEN [sidecar EXCEPT ![dk.track_path] = result] ELSE sidecar
    /\ UNCHANGED <<mc, clock, ring, buffer_lock, fill, audio, ctl, mixer, outdata,
                   workers, sync, tps, tm, batch, lk>>

(***************************************************************************)
(* Transport: play, pause, stop, seek_to (the control thread)              *)
(***************************************************************************)
Alive(d) == fill[d].pc # "dead"

Play(d) ==
    /\ ctl.pc = "idle"
    /\ IF deck[d].audio_data = None
       THEN UNCHANGED <<deck, clock, fill>>
       ELSE /\ clock' = [clock EXCEPT
                           ![d] = AudioClockPlayFromSamples(clock[d], deck[d].position, mc)]
            /\ IF deck[d].is_paused
               THEN /\ deck' = [deck EXCEPT ![d].is_paused = FALSE, ![d].is_playing = TRUE,
                                            ![d].rate_target = TempoOne]
                    /\ UNCHANGED fill
               ELSE IF Alive(d)
               THEN /\ deck' = [deck EXCEPT ![d].is_playing = TRUE,
                                            ![d].rate_target = TempoOne]
                    /\ UNCHANGED fill
               ELSE /\ deck' = [deck EXCEPT ![d].is_playing = TRUE,
                                            ![d].should_stop_worker = FALSE,
                                            ![d].rate_target = TempoOne]
                    /\ fill' = [fill EXCEPT ![d] = [pc |-> "loop", target |-> 0]]
    /\ UNCHANGED <<mc, ring, buffer_lock, audio, ctl, mixer, outdata, BMP_CACHE, sidecar,
                   workers, sync, tps, tm, batch, lk>>

PausedDeck(dk) == [dk EXCEPT !.is_paused = TRUE, !.is_playing = FALSE]

Pause(d) ==
    /\ ctl.pc = "idle"
    /\ deck' = [deck EXCEPT ![d] = PausedDeck(deck[d])]
    /\ clock' = [clock EXCEPT ![d] = AudioClockPause(clock[d])]
    /\ UNCHANGED <<mc, ring, buffer_lock, fill, audio, ctl, mixer, outdata, BMP_CACHE,
                   sidecar, workers, sync, tps, tm, batch, lk>>

\* stop lines 333-338: everything before the ring is cleared
StopBegin(d) ==
    /\ ctl.pc = "idle"
    /\ deck' = [deck EXCEPT ![d].is_playing = FALSE, ![d].is_paused = FALSE,
                            ![d].position = 0, ![d].should_stop_worker = TRUE]
    /\ clock' = [clock EXCEPT ![d] = AudioClockReset(clock[d])]
    /\ ctl' = [pc |-> "stop_clear", d |-> d, tgt |-> 0]
    /\ UNCHANGED <<mc, ring, buffer_lock, fill, audio, mixer, outdata, BMP_CACHE, sidecar,
                   workers, sync, tps, tm, batch, lk>>

\* stop lines 339-340: with buffer_lock: ring_buffer.clear()
StopClear ==
    /\ ctl.pc = "stop_clear"
    /\ buffer_lock[ctl.d] = "free"
    /\ ring' = [ring EXCEPT ![ctl.d] = <<>>]
    /\ ctl' = [pc |-> "idle", d |-> ctl.d, tgt |-> 0]
    /\ UNCHANGED <<mc, clock, deck, buffer_lock, fill, audio, mixer, outdata, BMP_CACHE,
                   sidecar, workers, sync, tps, tm, batch, lk>>

\* seek_to line 1367, in frames: int(max(0, min(time_sec, duration - 0.001)) * sr)
SeekTarget(t) == Max(0, Min(t, TrackFrames - 1))

\* seek_to lines 1363-1371: the clamp, then the ring is cleared under buffer_lock
SeekClear(d, t) ==
    /\ ctl.pc = "idle"
    /\ IF deck[d].audio_data = None
       THEN UNCHANGED <<ring, ctl>>
       ELSE /\ buffer_lock[d] = "free"
            /\ ring' = [ring EXCEPT ![d] = <<>>]
            /\ ctl' = [pc |-> "seek_set", d |-> d, tgt |-> SeekTarget(t)]
    /\ UNCHANGED <<mc, clock, deck, buffer_lock, fill, audio, mixer, outdata, BMP_CACHE,
                   sidecar, workers, sync, tps, tm, batch, lk>>

\* seek_to lines 1374-1383: the position and the AudioClock, after the lock is released
SeekSet ==
    /\ ctl.pc = "seek_set"
    /\ deck' = [deck EXCEPT ![ctl.d].position = ctl.tgt]
    /\ clock' = [clock EXCEPT ![ctl.d] = AudioClockPlayFromSamples(clock[ctl.d], ctl.tgt, mc)]
    /\ ctl' = [pc |-> "idle", d |-> ctl.d, tgt |-> 0]
    /\ UNCHANGED <<mc, ring, buffer_lock, fill, audio, mixer, outdata, BMP_CACHE, sidecar,
                   workers, sync, tps, tm, batch, lk>>

(***************************************************************************)
(* The fill worker thread (_worker_thread_func, _fill_ring_buffer), at     *)
(* effective ratio 1.0 and volume 1.0                                      *)
(***************************************************************************)
\* deque(maxlen=int(48000 * 3.0)), scaled with the chunk sizes
RingCapacity == 4 * FillTarget

\* _worker_thread_func lines 1213-1218
ChunkFor(size) ==
    IF 10 * size < 3 * RingCapacity THEN FillTarget
    ELSE IF 10 * size < 6 * RingCapacity THEN (FillTarget + 1) \div 2
    ELSE (FillTarget + 3) \div 4

\* lines 1189-1204: the loop's top
FillLoop(d) ==
    /\ fill[d].pc = "loop"
    /\ fill' = [fill EXCEPT ![d].pc =
                  IF deck[d].should_stop_worker THEN "dead"
                  ELSE IF ~deck[d].is_playing \/ deck[d].audio_data = None THEN "loop"
                  ELSE "measure"]
    /\ UNCHANGED <<mc, clock, deck, ring, buffer_lock, audio, ctl, mixer, outdata,
                   BMP_CACHE, sidecar, workers, sync, tps, tm, batch, lk>>

\* lines 1207-1218 and 1114: the ring is measured under the lock, the chunk chosen,
\* and _fill_ring_buffer entered
FillMeasure(d) ==
    /\ fill[d].pc = "measure"
    /\ buffer_lock[d] = "free"
    /\ fill' = [fill EXCEPT ![d] =
                  IF ~deck[d].is_playing \/ deck[d].audio_data = None
                  THEN [pc |-> "loop", target |-> 0]
                  ELSE [pc |-> "want_lock", target |-> ChunkFor(Len(ring[d]))]]
    /\ UNCHANGED <<mc, clock, deck, ring, buffer_lock, audio, ctl, mixer, outdata,
                   BMP_CACHE, sidecar, workers, sync, tps, tm, batch, lk>>

\* line 1117: with self.buffer_lock
FillAcquire(d) ==
    /\ fill[d].pc = "want_lock"
    /\ buffer_lock[d] = "free"
    /\ buffer_lock' = [buffer_lock EXCEPT ![d] = "fill"]
    /\ fill' = [fill EXCEPT ![d].pc = "locked"]
    /\ UNCHANGED <<mc, clock, deck, ring, audio, ctl, mixer, outdata, BMP_CACHE, sidecar,
                   workers, sync, tps, tm, batch, lk>>

\* lines 1144-1165: the slice of the decoded buffer, cut or zero-padded to `needed`
RenderChunk(f, start_sample, needed) ==
    LET source_frames_needed == (needed * 11) \div 10
        end_sample == Min(start_sample + source_frames_needed, TrackFrames)
        have == Min(end_sample - start_sample, needed)
    IN [i \in 1..needed |->
          IF i <= have THEN AudioData(f)[start_sample + i] ELSE Silence]

\* lines 1118-1178, under the lock
FillBody(d) ==
    /\ fill[d].pc = "locked"
    /\ LET current_size == Len(ring[d])
           needed_frames == Min(fill[d].target - current_size, RingCapacity - current_size)
           start_sample == deck[d].position
       IN IF needed_frames <= 0
          THEN UNCHANGED <<deck, ring>>
          ELSE IF start_sample >= TrackFrames
          THEN deck' = [deck EXCEPT ![d].is_playing = FALSE] /\ UNCHANGED ring
          ELSE /\ deck' = [deck EXCEPT ![d].position = @ + needed_frames]
               /\ ring' = [ring EXCEPT ![d] =
                             @ \o RenderChunk(deck[d].audio_data, start_sample, needed_frames)]
    /\ buffer_lock' = [buffer_lock EXCEPT ![d] = "free"]
    /\ fill' = [fill EXCEPT ![d] = [pc |-> "loop", target |-> 0]]
    /\ UNCHANGED <<mc, clock, audio, ctl, mixer, outdata, BMP_CACHE, sidecar, workers,
                   sync, tps, tm, batch, lk>>

(***************************************************************************)
(* pop_audio_chunk: the consumer side of the ring                          *)
(***************************************************************************)
Zeros(n) == [i \in 1..n |-> Silence]

PopChunkMutant(r, chunk_size) ==
    IF Len(r) >= chunk_size THEN SubSeq(r, 1, chunk_size)
    ELSE r \o Zeros(chunk_size - Len(r))

\* lines 370-373 and 408: the block returned
PopChunk(r, chunk_size) ==
    IF Len(r) >= chunk_size THEN SubSeq(r, 1, chunk_size) ELSE Zeros(chunk_size)

\* a pop that leaves the last frame it returned in the ring
PopRestMutant(r, chunk_size) ==
    IF Len(r) >= chunk_size THEN SubSeq(r, chunk_size, Len(r)) ELSE r

\* line 372: popleft() chunk_size times, or nothing
PopRest(r, chunk_size) ==
    IF Len(r) >= chunk_size THEN SubSeq(r, chunk_size + 1, Len(r)) ELSE r

\* lines 400-405: _underrun_counter, kept only while the deck is playing
PopUnderruns(dk, r, chunk_size) ==
    IF Len(r) < chunk_size /\ dk.is_playing THEN dk.underruns + 1 ELSE dk.underruns

\* line 395: the AudioClock is told only when a block was served
PopClock(c, r, chunk_size) ==
    IF Len(r) >= chunk_size THEN AudioClockOnAudioCallback(c, chunk_size) ELSE c

(***************************************************************************)
(* The mixer: controls and the audio callback.  crossfader and gains are   *)
(* in halves, master_volume in fifths; a mixed sample is in units of       *)
(* 1 / (100 * MixUnit).                                                    *)
(***************************************************************************)
MixUnit == 2 * 4 * 5
LimiterCeiling == 95

MixerInit ==
    [crossfader |-> 0, master_volume |-> 4, gain_a |-> 2, gain_b |-> 2,
     audio_stream |-> "none", is_streaming |-> FALSE]

SetCrossfader(v) ==
    /\ mixer' = [mixer EXCEPT !.crossfader = Max(-2, Min(2, v))]
    /\ UNCHANGED <<mc, clock, deck, ring, buffer_lock, fill, audio, ctl, outdata,
                   BMP_CACHE, sidecar, workers, sync, tps, tm, batch, lk>>

SetMasterVolume(v) ==
    /\ mixer' = [mixer EXCEPT !.master_volume = Max(0, Min(5, v))]
    /\ UNCHANGED <<mc, clock, deck, ring, buffer_lock, fill, audio, ctl, outdata,
                   BMP_CACHE, sidecar, workers, sync, tps, tm, batch, lk>>

SetDeckGain(d, v) ==
    /\ mixer' = IF d = "A" THEN [mixer EXCEPT !.gain_a = Max(0, Min(4, v))]
                ELSE [mixer EXCEPT !.gain_b = Max(0, Min(4, v))]
    /\ UNCHANGED <<mc, clock, deck, ring, buffer_lock, fill, audio, ctl, outdata,
                   BMP_CACHE, sidecar, workers, sync, tps, tm, batch, lk>>

\* lines 125-139: gains, the crossfader weights, the sum, the master volume
\* lines 132-134: crossfader_pos = (crossfader + 1) * 0.5, mix_a = 1 - crossfader_pos,
\* mix_b = crossfader_pos, in quarters
WeightUnit == 4
mix_a(mx) == 2 - mx.crossfader
mix_b(mx) == mx.crossfader + 2

MixSample(a, b, mx) ==
    (a * mx.gain_a * mix_a(mx) + b * mx.gain_b * mix_b(mx)) * mx.master_volume

HardClipMutant(v) == v

\* line 142: np.clip(mixed_audio, -0.95, 0.95)
HardClip(v) == Max(0 - LimiterCeiling * MixUnit, Min(LimiterCeiling * MixUnit, v))

MixBlock(audio_a, audio_b, mx) ==
    [i \in 1..Len(audio_a) |-> HardClip(MixSample(audio_a[i], audio_b[i], mx))]

AudioIdle == [pc |-> "idle", frames |-> 0, audio_a |-> <<>>, audio_b |-> <<>>]

\* a callback that goes to its pulls without advancing the MasterClock
AudioCallbackBeginMutant(frames) ==
    /\ audio.pc = "idle"
    /\ audio' = [audio EXCEPT !.pc = "lock_a", !.frames = frames]
    /\ UNCHANGED <<mc, clock, deck, ring, buffer_lock, fill, ctl, mixer, outdata,
                   BMP_CACHE, sidecar, workers, sync, tps, tm, batch, lk>>

\* lines 111-116 and MasterClock.on_audio_callback lines 121-122: the running check
AudioCallbackBegin(frames) ==
    /\ audio.pc = "idle"
    /\ mc.audio_samples_total + frames <= MaxMaster
    /\ \A d \in Decks : deck[d].underruns < MaxUnderruns
    /\ audio' = [audio EXCEPT !.pc = IF mc.is_running THEN "mc_add" ELSE "lock_a",
                              !.frames = frames]
    /\ UNCHANGED <<mc, clock, deck, ring, buffer_lock, fill, ctl, mixer, outdata,
                   BMP_CACHE, sidecar, workers, sync, tps, tm, batch, lk>>

\* MasterClock.on_audio_callback lines 124-125
AudioMasterAdd ==
    /\ audio.pc = "mc_add"
    /\ mc' = MasterClockAdd(mc, audio.frames)
    /\ audio' = [audio EXCEPT !.pc = "lock_a"]
    /\ UNCHANGED <<clock, deck, ring, buffer_lock, fill, ctl, mixer, outdata,
                   BMP_CACHE, sidecar, workers, sync, tps, tm, batch, lk>>

LockPc(d) == IF d = "A" THEN "lock_a" ELSE "lock_b"
PopPc(d) == IF d = "A" THEN "pop_a" ELSE "pop_b"

\* pop_audio_chunk line 367: with self.buffer_lock
AudioLock(d) ==
    /\ audio.pc = LockPc(d)
    /\ buffer_lock[d] = "free"
    /\ buffer_lock' = [buffer_lock EXCEPT ![d] = "audio"]
    /\ audio' = [audio EXCEPT !.pc = PopPc(d)]
    /\ UNCHANGED <<mc, clock, deck, ring, fill, ctl, mixer, outdata, BMP_CACHE, sidecar,
                   workers, sync, tps, tm, batch, lk>>

\* pop_audio_chunk lines 368-408, under the lock
AudioPop(d) ==
    /\ audio.pc = PopPc(d)
    /\ ring' = [ring EXCEPT ![d] = PopRest(ring[d], audio.frames)]
    /\ deck' = [deck EXCEPT ![d].underruns = PopUnderruns(deck[d], ring[d], audio.frames)]
    /\ clock' = [clock EXCEPT ![d] = PopClock(clock[d], ring[d], audio.frames)]
    /\ buffer_lock' = [buffer_lock EXCEPT ![d] = "free"]
    /\ audio' = IF d = "A"
                THEN [audio EXCEPT !.pc = "lock_b",
                                   !.audio_a = PopChunk(ring[d], audio.frames)]
                ELSE [audio EXCEPT !.pc = "mix",
                                   !.audio_b = PopChunk(ring[d], audio.frames)]
    /\ UNCHANGED <<mc, fill, ctl, mixer, outdata, BMP_CACHE, sidecar, workers, sync, tps,
                   tm, batch, lk>>

ExceptSilenceMutant(out, frames) == out
\* _audio_callback lines 159-161: except Exception: outdata.fill(0)
ExceptSilence(out, frames) == Zeros(frames)

\* _audio_callback lines 125-161: the mix written to outdata, or silence on an error
AudioMix(raised) ==
    /\ audio.pc = "mix"
    /\ outdata' = IF raised THEN ExceptSilence(outdata, audio.frames)
                  ELSE MixBlock(audio.audio_a, audio.audio_b, mixer)
    /\ audio' = AudioIdle
    /\ UNCHANGED <<mc, clock, deck, ring, buffer_lock, fill, ctl, mixer, BMP_CACHE,
                   sidecar, workers, sync, tps, tm, batch, lk>>

\* _audio_callback lines 121-122 and 159-161: pop_audio_chunk raises under the
\* deck's lock, before it has taken anything from the ring or after the frames
\* were taken (lines 372-373); the with-statement releases the lock
AudioPullRaises(d, popped) ==
    /\ audio.pc = PopPc(d)
    /\ ring' = IF popped THEN [ring EXCEPT ![d] = PopRest(ring[d], audio.frames)] ELSE ring
    /\ buffer_lock' = [buffer_lock EXCEPT ![d] = "free"]
    /\ outdata' = ExceptSilence(outdata, audio.frames)
    /\ audio' = AudioIdle
    /\ UNCHANGED <<mc, clock, deck, fill, ctl, mixer, BMP_CACHE, sidecar, workers,
                   sync, tps, tm, batch, lk>>

(***************************************************************************)
(* MasterClock operations called from outside the audio thread             *)
(***************************************************************************)
McUnchanged ==
    UNCHANGED <<clock, deck, ring, buffer_lock, fill, audio, ctl, mixer, outdata,
                BMP_CACHE, sidecar, workers, sync, tps, tm, batch, lk>>

Start(latency_ms) == mc' = MasterClockStart(mc, latency_ms) /\ McUnchanged
Stop == mc' = MasterClockStop(mc) /\ McUnchanged
Reset == mc' = MasterClockReset(mc) /\ McUnchanged
SetLatencyCompensation(latency_ms) ==
    mc' = MasterClockSetLatency(mc, latency_ms) /\ McUnchanged

(***************************************************************************)
(* start_audio and stop_audio (the control thread)                         *)
(***************************************************************************)
\* _fill_ring_buffer lines 1114-1171 as a function of the deck and its ring
FillEffect(dk, r, target_frames) ==
    LET needed_frames == Min(target_frames - Len(r), RingCapacity - Len(r)) IN
    IF ~dk.is_playing \/ dk.audio_data = None \/ needed_frames <= 0
    THEN [deck |-> dk, ring |-> r]
    ELSE IF dk.position >= TrackFrames
    THEN [deck |-> [dk EXCEPT !.is_playing = FALSE], ring |-> r]
    ELSE [deck |-> [dk EXCEPT !.position = @ + needed_frames],
          ring |-> r \o RenderChunk(dk.audio_data, dk.position, needed_frames)]

\* prepare_playback lines 410-413: the pre-roll of a playing deck
prepare_playback(dk, r) ==
    IF dk.audio_data # None /\ dk.is_playing THEN FillEffect(dk, r, FillTarget)
    ELSE [deck |-> dk, ring |-> r]

\* DJMixer.latency, in milliseconds
MixerLatencyMs == 120

StreamOutcomes == {"ok", "open_fails", "start_fails"}

\* what start_audio returns
StartAudioReturns(outcome) == outcome = "ok"

\* stop_audio lines 93-101 on the mixer's fields
StoppedMixer(mx) == [mx EXCEPT !.audio_stream = "none", !.is_streaming = FALSE]

\* start_audio lines 60-89; sd.OutputStream(...) or audio_stream.start() may raise
StartAudio(outcome) ==
    /\ ctl.pc = "idle"
    /\ mixer.audio_stream = "started" => audio.pc = "idle"
    /\ \A d \in Decks :
          (deck[d].audio_data # None /\ deck[d].is_playing) => buffer_lock[d] = "free"
    /\ LET held == mixer.audio_stream # "none"
           mx == IF held THEN StoppedMixer(mixer) ELSE mixer
       IN /\ mc' = MasterClockStart(IF held THEN MasterClockStop(mc) ELSE mc,
                                    MixerLatencyMs)
          /\ mixer' = CASE outcome = "open_fails" -> mx
                         [] outcome = "start_fails" -> [mx EXCEPT !.audio_stream = "open"]
                         [] OTHER -> [mx EXCEPT !.audio_stream = "started",
                                                !.is_streaming = TRUE]
    /\ deck' = [d \in Decks |-> prepare_playback(deck[d], ring[d]).deck]
    /\ ring' = [d \in Decks |-> prepare_playback(deck[d], ring[d]).ring]
    /\ UNCHANGED <<clock, buffer_lock, fill, audio, ctl, outdata, BMP_CACHE, sidecar,
                   workers, sync, tps, tm, batch, lk>>

\* stop_audio lines 91-103
StopAudio ==
    /\ ctl.pc = "idle"
    /\ mixer.audio_stream = "started" => audio.pc = "idle"
    /\ mixer' = StoppedMixer(mixer)
    /\ mc' = MasterClockStop(mc)
    /\ UNCHANGED <<clock, deck, ring, buffer_lock, fill, audio, ctl, outdata, BMP_CACHE,
                   sidecar, workers, sync, tps, tm, batch, lk>>

(***************************************************************************)
(* Tempo: set_tempo, set_pitch_range, set_bpm_target and sync_to_deck      *)
(* (the control thread)                                                    *)
(***************************************************************************)
PitchRangeKeys == {"8", "16", "50"}

\* PITCH_RANGES, in thousandths
PITCH_RANGES(key) ==
    CASE key = "8" -> [lo |-> 920, hi |-> 1080]
      [] key = "16" -> [lo |-> 840, hi |-> 1160]
      [] OTHER -> [lo |-> 500, hi |-> 1500]

\* effective_ratio: tempo_ratio * nudge_ratio
effective_ratio(dk) == (dk.tempo_ratio * dk.nudge_ratio) \div Milli

\* set_tempo lines 419-426: the clamp to 0.5..2.0, then the three stores
ClampTempo(ratio) == Max(TempoOne \div 2, Min(2 * TempoOne, ratio))

SetTempoDeck(dk, ratio) ==
    [dk EXCEPT !.rate_target = ClampTempo(ratio), !.tempo_ratio = ClampTempo(ratio),
               !.engine_tempo = ClampTempo(ratio)]

SetTempo(d, thousandths) ==
    /\ ctl.pc = "idle"
    /\ deck' = [deck EXCEPT ![d] = SetTempoDeck(deck[d], thousandths * RampSteps)]
    /\ UNCHANGED <<mc, clock, ring, buffer_lock, fill, audio, ctl, mixer, outdata,
                   BMP_CACHE, sidecar, workers, sync, tps, tm, batch, lk>>

SetPitchRange(d, range_key) ==
    /\ ctl.pc = "idle"
    /\ deck' = IF range_key \in PitchRangeKeys
               THEN [deck EXCEPT ![d].pitch_range_key = range_key] ELSE deck
    /\ UNCHANGED <<mc, clock, ring, buffer_lock, fill, audio, ctl, mixer, outdata,
                   BMP_CACHE, sidecar, workers, sync, tps, tm, batch, lk>>

\* set_bpm_target lines 1001-1008: the knob's BPM and the rate it asks for
BpmTargetDeck(dk, bpm) ==
    [dk EXCEPT !.bpm_target = bpm,
               !.rate_target = IF dk.detected_bpm > 0
                               THEN (bpm * TempoOne) \div dk.detected_bpm
                               ELSE (bpm * TempoOne) \div 100]

SetBpmTarget(d, bpm) ==
    /\ ctl.pc = "idle"
    /\ deck' = [deck EXCEPT ![d] = BpmTargetDeck(deck[d], bpm)]
    /\ UNCHANGED <<mc, clock, ring, buffer_lock, fill, audio, ctl, mixer, outdata,
                   BMP_CACHE, sidecar, workers, sync, tps, tm, batch, lk>>

\* A ratio inside _compute_sync_ratio is a fraction num / SyncDen(my_bmp): the
\* master's playing BPM is carried in 1/TempoOne BPM, and the factor 2 holds 0.5 * raw.
SyncDen(my_bmp) == 2 * TempoOne * my_bmp

choose_multiplierMutant(raw_num, den) == 2 * raw_num
\* _choose_multiplier: the first of [0.5 * raw, raw, 2.0 * raw] at the least distance
\* from 1.0; raw_num is the numerator of 0.5 * raw
choose_multiplier(raw_num, den) ==
    LET candidates == <<raw_num, 2 * raw_num, 4 * raw_num>>
        dist(i) == Abs(candidates[i] - den)
        best == CHOOSE i \in 1..3 :
                   /\ \A j \in 1..3 : dist(i) <= dist(j)
                   /\ \A j \in 1..(i - 1) : dist(j) > dist(i)
    IN candidates[best]

\* one thousandth as a numerator over den
MilliOf(den) == den \div Milli

\* _clamp_ratio: into the active pitch range
clamp_ratio(dk, num, den) ==
    LET r == PITCH_RANGES(dk.pitch_range_key) IN
    Max(r.lo * MilliOf(den), Min(r.hi * MilliOf(den), num))

\* round(x, 3): to the nearest thousandth, a tie to the even one
RoundMilli(num, den) ==
    LET q == num \div MilliOf(den)
        r == num % MilliOf(den)
    IN IF 2 * r < MilliOf(den) THEN q
       ELSE IF 2 * r > MilliOf(den) THEN q + 1
       ELSE IF q % 2 = 0 THEN q ELSE q + 1

\* _compute_sync_ratio lines 1314-1326: (clamped rounded to 0.001, hit_limit)
compute_sync_ratio(dk, my_bmp, other_bpm) ==
    LET den == SyncDen(my_bmp)
        adjusted == choose_multiplier(other_bpm, den)
        clamped == clamp_ratio(dk, adjusted, den)
    IN [ratio |-> RoundMilli(clamped, den) * RampSteps, hit_limit |-> clamped # adjusted]

\* sync_to_deck lines 1277-1280: the check that raises RuntimeError
BpmMissingMutant(dk, master_deck) == dk.detected_bpm = 0
BpmMissing(dk, master_deck) == master_deck.detected_bpm = 0 \/ dk.detected_bpm = 0

\* sync_to_deck line 1284: the BPM the master is playing at, in 1/TempoOne BPM
master_playing_bpm(master_deck) == master_deck.detected_bpm * effective_ratio(master_deck)

SyncIdle ==
    [d |-> "A", status |-> "none", start |-> 0, target_ratio |-> 0, hit_limit |-> FALSE,
     i |-> 0]

\* sync_to_deck lines 1277-1288 and _apply_sync_ramp lines 1330-1331: the call either
\* raises, or has its ratio and stands before the first ramp step
SyncToDeck(d, m) ==
    /\ ctl.pc = "idle"
    /\ IF BpmMissing(deck[d], deck[m])
       THEN /\ sync' = [SyncIdle EXCEPT !.d = d, !.status = "error"]
            /\ UNCHANGED ctl
       ELSE LET computed == compute_sync_ratio(deck[d], deck[d].detected_bpm,
                                               master_playing_bpm(deck[m])) IN
            /\ sync' = [d |-> d, status |-> "ramp", start |-> deck[d].tempo_ratio,
                        target_ratio |-> computed.ratio,
                        hit_limit |-> computed.hit_limit, i |-> 0]
            /\ ctl' = [pc |-> "sync_ramp", d |-> d, tgt |-> 0]
    /\ UNCHANGED <<mc, clock, deck, ring, buffer_lock, fill, audio, mixer, outdata,
                   BMP_CACHE, sidecar, workers, tps, tm, batch, lk>>

\* _apply_sync_ramp line 1334: the value of step i
RampValueMutant(start, target_ratio, i) ==
    start + ((target_ratio - start) * (i + 1)) \div RampSteps
RampValue(start, target_ratio, i) == start + ((target_ratio - start) * i) \div RampSteps

\* _apply_sync_ramp lines 1333-1337: one step of the ramp
SyncRampStep ==
    /\ ctl.pc = "sync_ramp"
    /\ sync.i < RampSteps
    /\ sync' = [sync EXCEPT !.i = @ + 1]
    /\ deck' = [deck EXCEPT ![sync.d] =
                  SetTempoDeck(@, RampValue(sync.start, sync.target_ratio, sync.i + 1))]
    /\ UNCHANGED <<mc, clock, ring, buffer_lock, fill, audio, ctl, mixer, outdata,
                   BMP_CACHE, sidecar, workers, tps, tm, batch, lk>>

\* sync_to_deck line 1295: return target_ratio, hit_limit
SyncReturn ==
    /\ ctl.pc = "sync_ramp"
    /\ sync.i = RampSteps
    /\ sync' = [sync EXCEPT !.status = "ok"]
    /\ ctl' = [pc |-> "idle", d |-> sync.d, tgt |-> 0]
    /\ UNCHANGED <<mc, clock, deck, ring, buffer_lock, fill, audio, mixer, outdata,
                   BMP_CACHE, sidecar, workers, tps, tm, batch, lk>>

(***************************************************************************)
(* Key lock (Deck.set_key_lock, TimeStretchEngine)                         *)
(***************************************************************************)
\* TimeStretchEngine.set_key_lock lines 56-59 inside Deck.set_key_lock lines 442-445
set_key_lock(dk, enabled) ==
    [dk EXCEPT !.key_lock = enabled,
               !.key_lock_enabled = enabled /\ dk.high_quality_available]

SetKeyLock(d, enabled) ==
    /\ ctl.pc = "idle"
    /\ deck' = [deck EXCEPT ![d] = set_key_lock(deck[d], enabled)]
    /\ UNCHANGED <<mc, clock, ring, buffer_lock, fill, audio, ctl, mixer, outdata,
                   BMP_CACHE, sidecar, workers, sync, tps, tm, batch, lk>>

\* Deck.is_key_lock_enabled lines 447-449
is_key_lock_enabled(dk) == dk.key_lock

\* _fill_ring_buffer lines 1148-1156 with process_audio lines 89-108: how a chunk
\* is brought to the effective tempo
ProcessingPath(dk) ==
    IF Abs(effective_ratio(dk) - TempoOne) * Milli <= TempoOne THEN "unchanged"
    ELSE IF dk.key_lock /\ dk.key_lock_enabled /\ dk.high_quality_available
    THEN "rubberband"
    ELSE "resample"

(***************************************************************************)
(* TempoPhaseSync (tempo_phase_sync.py), the singleton both decks share.   *)
(* Fixed point: phase errors and the integral in 1/1000 beat, the filtered *)
(* derivative in 1/10000 beat, the gains kp and ki in 1/10000, the PID     *)
(* output in 1e-7, a tempo correction as its offset from 1.0 in 1e-9, and  *)
(* time in update intervals of 50 ms.                                      *)
(***************************************************************************)
NoDeck == "none"

TempoPhaseSyncInit ==
    [target_deck |-> NoDeck, master_deck |-> NoDeck,
     sync_enabled |-> FALSE, phase_offset_beats |-> 0, tempo_correction_factor |-> 0,
     sync_quality |-> "poor",
     kp |-> 12000, ki |-> 1500,
     error_history |-> <<>>, integral_error |-> 0, last_error |-> 0,
     has_filtered_derivative |-> FALSE, filtered_derivative |-> 0,
     has_last_tempo_correction |-> FALSE, last_tempo_correction |-> 0,
     tempo_correction_active |-> FALSE, last_update |-> 0]

\* x * num / den, rounded toward zero
Scaled(x, num, den) ==
    IF x * num >= 0 THEN (x * num) \div den ELSE 0 - ((0 - x * num) \div den)

Sign(x) == IF x > 0 THEN 1 ELSE IF x < 0 THEN -1 ELSE 0

RECURSIVE SumSeq(_)
SumSeq(s) == IF s = <<>> THEN 0 ELSE Head(s) + SumSeq(Tail(s))

\* the last n entries of a list, s[-n:]
LastN(s, n) == SubSeq(s, Max(1, Len(s) - n + 1), Len(s))

\* np.mean(np.abs(s)) * len(s)
SumAbs(s) == SumSeq([i \in DOMAIN s |-> Abs(s[i])])

\* np.var(s) * len(s)^2, from the mean of the squares and the square of the mean
VarTimesN2(s) ==
    Len(s) * SumSeq([i \in DOMAIN s |-> s[i] * s[i]]) - SumSeq(s) * SumSeq(s)

\* reset_sync_state lines 108-118
reset_sync_state(p) ==
    [p EXCEPT !.phase_offset_beats = 0, !.tempo_correction_factor = 0,
              !.sync_quality = "poor", !.error_history = <<>>,
              !.integral_error = 0, !.last_error = 0]

\* set_decks lines 85-97
set_decks(p, target_deck, master_deck) ==
    reset_sync_state([p EXCEPT !.target_deck = target_deck, !.master_deck = master_deck])

\* enable_sync lines 99-106
enable_sync(p, enabled) ==
    IF enabled THEN reset_sync_state([p EXCEPT !.sync_enabled = TRUE])
    ELSE [p EXCEPT !.sync_enabled = FALSE]

\* Deck.enable_tempo_phase_sync lines 467-480, called on deck d
EnableTempoPhaseSync(d, master_deck, enabled) ==
    /\ ctl.pc = "idle"
    /\ tps' = IF enabled /\ master_deck # NoDeck
              THEN enable_sync(set_decks(tps, d, master_deck), TRUE)
              ELSE enable_sync(tps, FALSE)
    /\ UNCHANGED <<mc, clock, deck, ring, buffer_lock, fill, audio, ctl, mixer, outdata,
                   BMP_CACHE, sidecar, workers, sync, tm, batch, lk>>

\* _calculate_phase_error lines 176-200: None when the master has no BPM, else the
\* clocks' distance in beats of the master, folded into [-0.5, 0.5)
NoPhaseError == 1000000

calculate_phase_error(p) ==
    LET master == deck[p.master_deck]
        master_bpm == master.detected_bpm * effective_ratio(master)
        distance == NowSamples(clock[p.master_deck], mc)
                      - NowSamples(clock[p.target_deck], mc)
        beats == Scaled(distance * master_bpm, 1, 60 * RampSteps * SampleRate)
    IN IF master.detected_bpm <= 0 THEN NoPhaseError
       ELSE ((beats + 500) % Milli) - 500

\* _adapt_pll_gains lines 331-350, on the history h
adapt_pll_gains(p, h) ==
    LET recent == LastN(h, 20)
        v == VarTimesN2(recent)
        m == SumAbs(recent)
        kp == IF v > 400 * 10000 THEN Max(5000, Scaled(p.kp, 95, 100))
              ELSE IF v < 400 * 1000 /\ m > 20 * 20 THEN Min(20000, Scaled(p.kp, 105, 100))
              ELSE p.kp
        ki == IF m > 20 * 50 THEN Min(2500, Scaled(p.ki, 102, 100))
              ELSE IF m < 20 * 10 THEN Max(500, Scaled(p.ki, 98, 100))
              ELSE p.ki
    IN IF Len(h) < 20 THEN [kp |-> p.kp, ki |-> p.ki] ELSE [kp |-> kp, ki |-> ki]

\* _get_adaptive_tempo_limit lines 313-329
adaptive_tempo_limit(p) ==
    CASE p.sync_quality = "excellent" -> 500000
      [] p.sync_quality = "good" -> 1000000
      [] p.sync_quality = "fair" -> 2000000
      [] OTHER -> 5000000

\* _apply_tempo_hysteresis lines 275-311: the fields it leaves and the correction
\* it returns, for the raw correction c
apply_tempo_hysteresis(p, c) ==
    LET off == [p EXCEPT !.tempo_correction_active = FALSE]
        on == [p EXCEPT !.tempo_correction_active = TRUE]
        ramped == IF p.has_last_tempo_correction
                  THEN Scaled(p.last_tempo_correction, 95, 100) + Scaled(c, 5, 100)
                  ELSE c
        kept(q) == [q EXCEPT !.has_last_tempo_correction = TRUE,
                             !.last_tempo_correction = ramped]
        out == IF Abs(c) < 100000 THEN 0 ELSE ramped
    IN IF ~p.tempo_correction_active
       THEN IF Abs(c) > 1000000 THEN [p |-> kept(on), correction |-> out]
            ELSE [p |-> p, correction |-> 0]
       ELSE IF Abs(c) < 500000 THEN [p |-> off, correction |-> 0]
            ELSE [p |-> kept(p), correction |-> out]

\* _update_pll lines 206-273 for the phase error e
update_pll(p, e) ==
    LET appended == Append(p.error_history, e)
        h == IF Len(appended) > 100 THEN Tail(appended) ELSE appended
        gains == IF Len(h) > 10 THEN adapt_pll_gains(p, h) ELSE [kp |-> p.kp, ki |-> p.ki]
        proportional == gains.kp * e
        summed == IF Abs(e) > 500 THEN Scaled(p.integral_error, 1, 2)
                  ELSE p.integral_error + e
        max_integral == 50000000 \div Max(gains.ki, 100)
        integral_error == Max(0 - max_integral, Min(max_integral, summed))
        integral == gains.ki * integral_error
        raw_derivative == 10 * (e - p.last_error)
        filtered == IF p.has_filtered_derivative
                    THEN Scaled(p.filtered_derivative, 7, 10) + Scaled(raw_derivative, 3, 10)
                    ELSE raw_derivative
        derivative == 80 * filtered
        pid == proportional + integral + derivative
        pid_output == IF Abs(pid) < 100000 THEN Scaled(pid, 1, 2)
                      ELSE IF Abs(pid) > 1000000
                      THEN 1000000 * Sign(pid) + Scaled(pid - 1000000 * Sign(pid), 1, 2)
                      ELSE pid
        q == [p EXCEPT !.error_history = h, !.kp = gains.kp, !.ki = gains.ki,
                       !.integral_error = integral_error, !.last_error = e,
                       !.has_filtered_derivative = TRUE, !.filtered_derivative = filtered]
        hyst == apply_tempo_hysteresis(q, pid_output)
        max_corr == adaptive_tempo_limit(q)
    IN [p |-> hyst.p,
        correction |-> Max(0 - max_corr, Min(max_corr, hyst.correction))]

\* TimeStretchEngine.set_tempo lines 51-54 after the product of line 362
CorrectedTempo(tempo, correction) ==
    ClampTempo(tempo + Scaled(tempo, Scaled(correction, 1, 1000), 1000000))

\* _apply_tempo_correction lines 352-373 on the target deck: a Deck has a
\* time_stretch_engine, so the first branch is the one taken
apply_tempo_correctionMutant(dk, correction) ==
    [dk EXCEPT !.tempo_ratio = CorrectedTempo(dk.tempo_ratio, correction)]
apply_tempo_correction(dk, correction) ==
    [dk EXCEPT !.engine_tempo = CorrectedTempo(dk.engine_tempo, correction)]

\* _update_sync_quality lines 375-394
update_sync_quality(h) ==
    LET recent == LastN(h, 10)
        m == SumAbs(recent)
        v == VarTimesN2(recent)
    IN IF Len(h) < 10 THEN "poor"
       ELSE IF m < 10 * 10 /\ v < 100 * 25 THEN "excellent"
       ELSE IF m < 10 * 20 /\ v < 100 * 100 THEN "good"
       ELSE IF m < 10 * 50 /\ v < 100 * 400 THEN "fair"
       ELSE "poor"

\* TelemetryDiagnostics._calculate_phase_offset_beats lines 168-198, in
\* 1/(120 * SampleRate) beat, the beats one frame spans per unit of bpm_a + bpm_b
TelemetryBeat == 120 * SampleRate

TelemetryBpm(dk) == IF dk.detected_bpm > 0 THEN dk.detected_bpm ELSE 120

calculate_phase_offset_beats(a, b) ==
    LET bpm_sum == TelemetryBpm(deck[a]) + TelemetryBpm(deck[b])
        phase_diff == ((NowSamples(clock[a], mc) - NowSamples(clock[b], mc)) * bpm_sum)
                         % TelemetryBeat
    IN IF 2 * phase_diff > TelemetryBeat THEN phase_diff - TelemetryBeat ELSE phase_diff

\* update_sync lines 120-152, called once the update interval has passed
\* (_should_update lines 154-162), no later than `until` intervals after the start
UpdateSync(until) ==
    /\ ctl.pc = "idle"
    /\ tps.last_update < until
    /\ LET ticked == [tps EXCEPT !.last_update = @ + 1]
           e == calculate_phase_error(ticked)
           pll == update_pll(ticked, e)
       IN IF ~tps.sync_enabled \/ tps.target_deck = NoDeck \/ tps.master_deck = NoDeck
          THEN tps' = ticked /\ UNCHANGED deck
          ELSE IF e = NoPhaseError
          THEN tps' = ticked /\ UNCHANGED deck
          ELSE /\ deck' = [deck EXCEPT ![tps.target_deck] =
                             apply_tempo_correction(@, pll.correction)]
               /\ tps' = [pll.p EXCEPT
                            !.tempo_correction_factor = pll.correction,
                            !.phase_offset_beats = e,
                            !.sync_quality = update_sync_quality(pll.p.error_history)]
    /\ UNCHANGED <<mc, clock, ring, buffer_lock, fill, audio, ctl, mixer, outdata,
                   BMP_CACHE, sidecar, workers, sync, tm, batch, lk>>

(***************************************************************************)
(* TempoMap and TempoMapManager (tempo_map.py).  Beats are counted in      *)
(* 1/(60 * SampleRate) of a beat, the beats one sample spans at 1 BPM, so  *)
(* that a sample at B BPM spans B units and every position is exact.       *)
(***************************************************************************)
BeatUnit == 60 * SampleRate

\* int(): truncation toward zero
TruncDiv(a, b) == IF a >= 0 THEN a \div b ELSE 0 - ((0 - a) \div b)

TempoSegment(p, b, bpm) == [sample_position |-> p, beat_index |-> b, local_bpm |-> bpm]

\* TempoSegment.__post_init__ lines 25-34: the checks that raise ValueError
ValidSegment(seg) == seg.sample_position >= 0 /\ seg.beat_index >= 0 /\ seg.local_bpm > 0

\* no TempoMap object (None)
NoMap == [segments |-> <<>>, grid_offset_beats |-> 0]

\* list.sort(key=sample_position), which is stable
RECURSIVE SortedInsert(_, _)
SortedInsert(sorted, seg) ==
    IF sorted = <<>> THEN <<seg>>
    ELSE IF sorted[Len(sorted)].sample_position <= seg.sample_position
    THEN Append(sorted, seg)
    ELSE Append(SortedInsert(SubSeq(sorted, 1, Len(sorted) - 1), seg), sorted[Len(sorted)])

RECURSIVE SortSegments(_)
SortSegments(segs) ==
    IF segs = <<>> THEN <<>>
    ELSE SortedInsert(SortSegments(SubSeq(segs, 1, Len(segs) - 1)), segs[Len(segs)])

\* TempoMap.__post_init__ lines 45-61, for a non-empty list of segments
NewTempoMap(segments, grid_offset_beats) ==
    LET sorted == SortSegments(segments)
    IN [segments |-> IF sorted[1].sample_position # 0
                     THEN <<TempoSegment(0, 0, sorted[1].local_bpm)>> \o sorted
                     ELSE sorted,
        grid_offset_beats |-> grid_offset_beats]

\* from_constant_bpm lines 64-82; the beat offset is given in samples
from_constant_bpm(bpm, beat_offset_samples) ==
    NewTempoMap(<<TempoSegment(beat_offset_samples, 0, bpm)>>, 0)

\* _find_segment_for_sample lines 232-242
find_segment_for_sample(map, sample_position) ==
    LET at == {i \in DOMAIN map.segments :
                 map.segments[i].sample_position <= sample_position}
    IN IF at = {} THEN map.segments[1]
       ELSE map.segments[CHOOSE i \in at : \A j \in at : j <= i]

\* _find_segment_for_beat lines 244-254
find_segment_for_beatMutant(map, beat_position) == map.segments[1]
find_segment_for_beat(map, beat_position) ==
    LET at == {i \in DOMAIN map.segments : map.segments[i].beat_index <= beat_position}
    IN IF at = {} THEN map.segments[1]
       ELSE map.segments[CHOOSE i \in at : \A j \in at : j <= i]

\* samples_to_beats lines 123-148
ClampedBeatsMutant(total_beats) == total_beats
ClampedBeats(total_beats) == Max(0, total_beats)

samples_to_beats(map, sample_position) ==
    LET segment == find_segment_for_sample(map, sample_position)
        beats_from_segment_start ==
            (sample_position - segment.sample_position) * segment.local_bpm
    IN IF sample_position < 0 THEN 0
       ELSE ClampedBeats(segment.beat_index + beats_from_segment_start
                           + map.grid_offset_beats)

\* beats_to_samples lines 150-177
SamplesInt(beats, bpm) == TruncDiv(beats, bpm)

beats_to_samples(map, beat_position) ==
    LET adjusted_beat_position == beat_position - map.grid_offset_beats
        segment == find_segment_for_beat(map, adjusted_beat_position)
    IN IF beat_position <= 0 \/ adjusted_beat_position <= 0 THEN 0
       ELSE segment.sample_position
              + SamplesInt(adjusted_beat_position - segment.beat_index, segment.local_bpm)

\* to_dict lines 256-265: the JSON document save_to_file writes
CurrentVersion == "1.0"
NoFile == [exists |-> FALSE, segments |-> <<>>, grid_offset_beats |-> 0,
           version |-> "missing"]

to_dict(map) ==
    [exists |-> TRUE, segments |-> map.segments,
     grid_offset_beats |-> map.grid_offset_beats, version |-> CurrentVersion]

\* from_dict lines 267-278 raises when a segment is refused or none is given
FromDictRaises(data) ==
    data.segments = <<>> \/ \E i \in DOMAIN data.segments : ~ValidSegment(data.segments[i])

from_dict(data) == NewTempoMap(data.segments, data.grid_offset_beats)

\* load_from_file lines 290-303: None when the file cannot be read or from_dict raises
load_from_file(file) ==
    IF ~file.exists \/ FromDictRaises(file) THEN NoMap ELSE from_dict(file)

NoCall == [op |-> "none", arg |-> 0, samples |-> 0, beats |-> 0]

\* TempoMapManager.__init__ with no tempo-map file beside the track
TempoMapManagerInit == [cache |-> NoMap, file |-> NoFile, call |-> NoCall]

TmUnchanged ==
    UNCHANGED <<mc, clock, deck, ring, buffer_lock, fill, audio, ctl, mixer, outdata,
                BMP_CACHE, sidecar, workers, sync, tps, batch, lk>>

\* create_from_bpm_analysis lines 327-339
CreateFromBpmAnalysis(bpm, beat_offset_samples) ==
    /\ tm' = [tm EXCEPT !.cache = from_constant_bpm(bpm, beat_offset_samples),
                        !.call = [NoCall EXCEPT !.op = "create"]]
    /\ TmUnchanged

\* load_or_create_from_file lines 341-359
LoadOrCreateFromFile ==
    /\ tm' = [tm EXCEPT !.cache = IF tm.cache # NoMap THEN tm.cache
                                  ELSE load_from_file(tm.file),
                        !.call = [NoCall EXCEPT !.op = IF tm.cache # NoMap THEN "cached"
                                                       ELSE "load"]]
    /\ TmUnchanged

\* save_to_file_cache lines 361-368
SaveToFileCache ==
    /\ tm.cache # NoMap
    /\ tm' = [tm EXCEPT !.file = to_dict(tm.cache), !.call = [NoCall EXCEPT !.op = "save"]]
    /\ TmUnchanged

\* clear_cache lines 370-374
ClearCache ==
    /\ tm' = [tm EXCEPT !.cache = NoMap, !.call = [NoCall EXCEPT !.op = "clear"]]
    /\ TmUnchanged

\* set_grid_offset lines 190-197
SetGridOffset(offset_beats) ==
    /\ tm.cache # NoMap
    /\ tm' = [tm EXCEPT !.cache.grid_offset_beats = offset_beats,
                        !.call = [NoCall EXCEPT !.op = "offset"]]
    /\ TmUnchanged

\* a call of samples_to_beats on the cached map
SamplesToBeats(n) ==
    /\ tm.cache # NoMap
    /\ tm' = [tm EXCEPT !.call = [op |-> "samples_to_beats", arg |-> n, samples |-> n,
                                  beats |-> samples_to_beats(tm.cache, n)]]
    /\ TmUnchanged

\* a call of beats_to_samples on the cached map, then of samples_to_beats on its result
BeatsToSamples(b) ==
    /\ tm.cache # NoMap
    /\ tm' = [tm EXCEPT !.call =
                [op |-> "beats_to_samples", arg |-> b,
                 samples |-> beats_to_samples(tm.cache, b),
                 beats |-> samples_to_beats(tm.cache, beats_to_samples(tm.cache, b))]]
    /\ TmUnchanged

(***************************************************************************)
(* BatchBpmAnalyzer (batch_bpm_analyzer.py)                                *)
(***************************************************************************)
\* file_paths, as set_files left it: the files 1..MaxBatchFiles
MaxBatchFiles == 2

\* __init__ lines 28-33, the thread not yet started.  file_idx counts the files the
\* loop has taken; the last four fields observe the run: the progress signals
\* emitted, whether request_stop was called after start(), the files begun after
\* such a call or while pause_flag was set, and how often finished_all was emitted.
BatchBpmAnalyzerInit ==
    [pc |-> "new", stop_flag |-> FALSE, pause_flag |-> FALSE, file_idx |-> 0,
     progress |-> <<>>, stop_requested |-> FALSE, late_files |-> {}, finished_all |-> 0]

BatchUnchanged ==
    UNCHANGED <<mc, clock, deck, ring, buffer_lock, fill, audio, ctl, mixer, outdata,
                BMP_CACHE, sidecar, workers, sync, tps, tm, lk>>

\* QThread.start(): the thread exists, run() has not executed its first statement
BatchStart ==
    /\ batch.pc = "new"
    /\ batch' = [batch EXCEPT !.pc = "started"]
    /\ BatchUnchanged

\* request_stop lines 43-45 (and its alias stop, lines 59-61)
RequestStop ==
    /\ batch' = [batch EXCEPT !.stop_flag = TRUE,
                              !.stop_requested = @ \/ batch.pc \notin {"new", "done"}]
    /\ BatchUnchanged

\* pause_analysis lines 47-49
PauseAnalysis ==
    /\ batch' = [batch EXCEPT !.pause_flag = TRUE]
    /\ BatchUnchanged

\* resume_analysis lines 51-53
ResumeAnalysis ==
    /\ batch' = [batch EXCEPT !.pause_flag = FALSE]
    /\ BatchUnchanged

\* run line 234: the first statement of the thread
RunBegin ==
    /\ batch.pc = "started"
    /\ batch' = [batch EXCEPT !.stop_flag = FALSE, !.pc = "loop"]
    /\ BatchUnchanged

\* run lines 253-257: the next file of the list, or the end of the list; the first
\* look at stop_flag
RunLoopTop ==
    /\ batch.pc = "loop"
    /\ batch' = [batch EXCEPT !.pc = IF batch.file_idx >= MaxBatchFiles \/ batch.stop_flag
                                     THEN "finish" ELSE "pause"]
    /\ BatchUnchanged

\* run lines 260-264: one round of the pause loop, taken while pause_flag is set
RunPauseSleep ==
    /\ batch.pc = "pause" /\ batch.pause_flag
    /\ batch' = [batch EXCEPT !.pc = IF batch.stop_flag THEN "stopped" ELSE "pause"]
    /\ BatchUnchanged

\* run lines 260 and 266-269: pause_flag found clear (or the pause loop left by a
\* stop), stop_flag looked at once more, and the file begun; the two reads and
\* the begin are taken as one step
RunStartFile ==
    /\ \/ batch.pc = "pause" /\ ~batch.pause_flag
       \/ batch.pc = "stopped"
    /\ batch' = IF batch.stop_flag
                THEN [batch EXCEPT !.pc = "finish"]
                ELSE [batch EXCEPT !.pc = "file", !.file_idx = @ + 1,
                                   !.late_files =
                                       IF batch.stop_requested \/ batch.pause_flag
                                       THEN @ \cup {batch.file_idx + 1} ELSE @]
    /\ BatchUnchanged

\* run lines 271-338: the cache hit, or the analysis that succeeds, finds no BPM,
\* times out or is cut short by stop_flag (_analyze_with_aubio lines 146-153);
\* each way one progress signal, carrying success or failure, and on to the next file
RunFile(success) ==
    /\ batch.pc = "file"
    /\ batch' = [batch EXCEPT !.progress = Append(@, success), !.pc = "loop"]
    /\ BatchUnchanged

\* run lines 340-342
RunFinish ==
    /\ batch.pc = "finish"
    /\ batch' = [batch EXCEPT !.finished_all = @ + 1, !.pc = "done"]
    /\ BatchUnchanged

(***************************************************************************)
(* The locks of the engine and the order in which each thread takes them   *)
(***************************************************************************)
Threads == {"audio", "fillA", "fillB", "control", "telemetry", "sync"}
NoThread == "free"

\* mixer.py:49, deck.py:74 and 78, time_stretch.py:43, audio_clock.py:10 (a class
\* attribute of the dataclass: one Lock object for every AudioClock),
\* master_clock.py:76, tempo_phase_sync.py:77
MixerLock == <<"_audio_lock", "mixer">>
BufferLock(d) == <<"buffer_lock", d>>
TempoLock(d) == <<"tempo_lock", d>>
StretchLock(d) == <<"time_stretch_engine.lock", d>>
AudioClockLock == <<"_lock", "AudioClock">>
ClockLock == <<"_clock_lock", "MasterClock">>
SyncLock == <<"lock", "TempoPhaseSync">>

LockNames ==
    {MixerLock, AudioClockLock, ClockLock, SyncLock}
        \cup {BufferLock(d) : d \in Decks} \cup {TempoLock(d) : d \in Decks}
        \cup {StretchLock(d) : d \in Decks}

Acquire(l) == [op |-> "acquire", lock |-> l]
Release(l) == [op |-> "release", lock |-> l]

\* with l: body
With(l, body) == <<Acquire(l)>> \o body \o <<Release(l)>>

\* A handler is the sequence of its outermost with-blocks, each block the sequence
\* of its lock operations.

\* MasterClock.get_state, get_total_audio_samples, on_audio_callback, start, stop,
\* reset, set_latency_compensation: _clock_lock around plain field accesses
MasterClockLocks == With(ClockLock, <<>>)

\* AudioClock.reset, pause, and on_audio_callback when the clock is not paused
AudioClockFieldLocks == With(AudioClockLock, <<>>)

\* AudioClock.now_seconds: the MasterClock is read under _lock when not paused
NowSecondsLocks(paused) ==
    With(AudioClockLock, IF paused THEN <<>> ELSE MasterClockLocks)

\* AudioClock.play_from_samples
PlayFromSamplesLocks == With(AudioClockLock, MasterClockLocks)

\* TimeStretchEngine.set_tempo, set_key_lock, and the read at the top of process_audio
StretchFieldLocks(d) == With(StretchLock(d), <<>>)

\* Deck.pop_audio_chunk: buffer_lock around the pop and, when a chunk was there,
\* around clock.on_audio_callback, which returns at once on a paused clock
PopAudioChunkLocks(d, advance) ==
    With(BufferLock(d), IF advance THEN AudioClockFieldLocks ELSE <<>>)

\* DJMixer._audio_callback: the MasterClock first, then both pops under _audio_lock
AudioCallbackLocks(advanceA, advanceB) ==
    <<MasterClockLocks,
      With(MixerLock, PopAudioChunkLocks("A", advanceA) \o PopAudioChunkLocks("B", advanceB))>>

\* Deck._fill_ring_buffer: tempo_lock inside buffer_lock, then with key lock on and
\* a ratio other than 1 the engine's set_tempo and process_audio, each taking the
\* engine's lock for itself
FillRingBufferLocks(d, stretch) ==
    With(BufferLock(d),
         With(TempoLock(d), <<>>)
             \o (IF stretch THEN StretchFieldLocks(d) \o StretchFieldLocks(d) ELSE <<>>))

\* one round of Deck._worker_thread_func: get_state, _smooth_rate, the measurement
\* of the ring, the fill, get_state
WorkerRoundLocks(d, stretch) ==
    <<MasterClockLocks, MasterClockLocks, With(BufferLock(d), <<>>),
      FillRingBufferLocks(d, stretch), MasterClockLocks>>

\* Deck.play, pause, stop, seek_to, set_tempo, set_key_lock, load_track
PlayLocks == <<PlayFromSamplesLocks>>
PauseLocks == <<AudioClockFieldLocks>>
StopLocksMutant(d) == <<With(AudioClockLock, With(BufferLock(d), <<>>))>>
StopLocks(d) == <<AudioClockFieldLocks, With(BufferLock(d), <<>>)>>
SeekToLocks(d) == <<With(BufferLock(d), <<>>), PlayFromSamplesLocks>>
SetTempoLocks(d) == <<With(TempoLock(d), <<>>), StretchFieldLocks(d)>>
SetKeyLockLocks(d) == <<StretchFieldLocks(d)>>
LoadTrackLocks == <<AudioClockFieldLocks>>

\* TempoPhaseSync.set_decks and enable_sync(True): reset_sync_state reads the
\* MasterClock under the controller's lock; enable_sync(False), get_sync_state
SetDecksLocks == With(SyncLock, MasterClockLocks)
EnableSyncLocks(enabled) == With(SyncLock, IF enabled THEN MasterClockLocks ELSE <<>>)
GetSyncStateLocks == With(SyncLock, <<>>)

\* Deck.enable_tempo_phase_sync
EnableTempoPhaseSyncLocks(enabled) ==
    IF enabled THEN <<SetDecksLocks, EnableSyncLocks(TRUE)>> ELSE <<EnableSyncLocks(FALSE)>>

\* TempoPhaseSync.update_sync: _should_update, then under the lock the two clocks,
\* the target's engine (set_tempo) and the MasterClock; the early returns leave
\* the lock
UpdateSyncLocks(d, due, ready, pausedM, pausedT) ==
    <<MasterClockLocks>> \o
    (IF ~due THEN <<>>
     ELSE <<With(SyncLock,
                 IF ~ready THEN <<>>
                 ELSE NowSecondsLocks(pausedM) \o NowSecondsLocks(pausedT)
                          \o StretchFieldLocks(d) \o MasterClockLocks)>>)

\* Deck.phase_follow_tick with the controller enabled
PhaseFollowTickLocks(d, due, ready, pausedM, pausedT) ==
    <<GetSyncStateLocks>> \o UpdateSyncLocks(d, due, ready, pausedM, pausedT)

\* TelemetryDiagnostics: _get_sample_position_from_audio_thread for both decks, then
\* _calculate_phase_offset_beats
TelemetryLocks(pausedA, pausedB) ==
    <<AudioClockFieldLocks, AudioClockFieldLocks,
      NowSecondsLocks(pausedA), NowSecondsLocks(pausedB)>>

\* what each thread may call
Handlers(t) ==
    CASE t = "audio" -> {AudioCallbackLocks(a, b) : a \in BOOLEAN, b \in BOOLEAN}
      [] t = "fillA" -> {WorkerRoundLocks("A", st) : st \in BOOLEAN}
      [] t = "fillB" -> {WorkerRoundLocks("B", st) : st \in BOOLEAN}
      [] t = "control" ->
           {PlayLocks, PauseLocks, LoadTrackLocks, <<MasterClockLocks>>}
               \cup {StopLocks(d) : d \in Decks} \cup {SeekToLocks(d) : d \in Decks}
               \cup {SetTempoLocks(d) : d \in Decks}
               \cup {SetKeyLockLocks(d) : d \in Decks}
               \cup {EnableTempoPhaseSyncLocks(e) : e \in BOOLEAN}
      [] t = "telemetry" -> {TelemetryLocks(pa, pb) : pa \in BOOLEAN, pb \in BOOLEAN}
      [] t = "sync" ->
           {PhaseFollowTickLocks(d, due, ready, pm, pt) :
                d \in Decks, due \in BOOLEAN, ready \in BOOLEAN,
                pm \in BOOLEAN, pt \in BOOLEAN}

\* Between two outermost with-blocks a thread holds no lock, so where it stands in
\* its handler changes nothing for the other threads: a thread is taken to enter
\* any outermost block of any of its handlers.
Operations(t) == UNION {{h[i] : i \in DOMAIN h} : h \in Handlers(t)}

LocksInit ==
    [holder |-> [l \in LockNames |-> NoThread], todo |-> [t \in Threads |-> <<>>]]

LocksUnchanged ==
    UNCHANGED <<mc, clock, deck, ring, buffer_lock, fill, audio, ctl, mixer, outdata,
                BMP_CACHE, sidecar, workers, sync, tps, tm, batch>>

\* the block `locks` is one with-statement around no further lock operation: its
\* holder never waits inside, so the block is passed in one step
EmptyBlock(locks) ==
    /\ Len(locks) >= 2
    /\ locks[1].op = "acquire" /\ locks[2].op = "release"
    /\ locks[1].lock = locks[2].lock

Free(l) == lk.holder[l] = NoThread

\* a thread that holds no lock enters an outermost with-block: threading.Lock.acquire
\* returns once the lock is free
EnterOperation(t, locks) ==
    /\ lk.todo[t] = <<>>
    /\ Free(locks[1].lock)
    /\ lk' = IF EmptyBlock(locks) THEN lk
             ELSE [lk EXCEPT !.holder[locks[1].lock] = t, !.todo[t] = Tail(locks)]
    /\ LocksUnchanged

\* a with-statement inside a block
AcquireLock(t) ==
    /\ lk.todo[t] # <<>>
    /\ Head(lk.todo[t]).op = "acquire"
    /\ Free(Head(lk.todo[t]).lock)
    /\ lk' = IF EmptyBlock(lk.todo[t])
             THEN [lk EXCEPT !.todo[t] = Tail(Tail(@))]
             ELSE [lk EXCEPT !.holder[Head(lk.todo[t]).lock] = t, !.todo[t] = Tail(@)]
    /\ LocksUnchanged

\* the end of a with-statement
ReleaseLock(t) ==
    /\ lk.todo[t] # <<>>
    /\ Head(lk.todo[t]).op = "release"
    /\ lk' = [lk EXCEPT !.holder[Head(lk.todo[t]).lock] = NoThread, !.todo[t] = Tail(@)]
    /\ LocksUnchanged

(***************************************************************************)
(* Initial states and specifications                                       *)
(***************************************************************************)
\* the engine right after construction, beside the sidecar files `sc`, with
\* pyrubberband importable or not
EngineConstructed(sc, available) ==
    /\ mc = MasterClockInit
    /\ clock = [d \in Decks |-> AudioClockInit]
    /\ deck = [d \in Decks |-> DeckBuilt(available)]
    /\ ring = [d \in Decks |-> <<>>]
    /\ buffer_lock = [d \in Decks |-> "free"]
    /\ fill = [d \in Decks |-> [pc |-> "dead", target |-> 0]]
    /\ audio = AudioIdle
    /\ ctl = [pc |-> "idle", d |-> "A", tgt |-> 0]
    /\ mixer = MixerInit
    /\ outdata = <<>>
    /\ BMP_CACHE = [f \in Files |-> NoEntry]
    /\ sidecar = sc
    /\ workers = {}
    /\ sync = SyncIdle
    /\ tps = TempoPhaseSyncInit

ConstructedWith(sc, available) ==
    /\ EngineConstructed(sc, available)
    /\ tm = TempoMapManagerInit
    /\ batch = BatchBpmAnalyzerInit
    /\ lk = LocksInit

Constructed(sc) == ConstructedWith(sc, TRUE)

NoSidecars == [f \in Files |-> NoEntry]
FullSidecars == [f \in Files |-> BpmAndKey(f)]

Latencies == {0, 40, 120}

AudioCallback(sizes) ==
    \/ \E frames \in sizes : AudioCallbackBegin(frames)
    \/ AudioMasterAdd
    \/ \E d \in Decks : AudioLock(d)
    \/ \E d \in Decks : AudioPop(d)
    \/ \E d \in Decks, popped \in BOOLEAN : AudioPullRaises(d, popped)
    \/ \E raised \in BOOLEAN : AudioMix(raised)

(* The MasterClock under its callers: the audio thread's callback and the  *)
(* threads that start, stop, reset and retune it.                          *)
InitClock == Constructed(NoSidecars)

NextClock ==
    \/ \E l \in Latencies : Start(l)
    \/ Stop
    \/ Reset
    \/ \E l \in Latencies : SetLatencyCompensation(l)
    \/ AudioCallback(1..BlockFrames)

SpecClock == InitClock /\ [][NextClock]_vars

(* Transport of one deck: the control thread loads analysed files, plays,  *)
(* pauses, stops and seeks while the deck's fill worker runs.              *)
PlayDecks == {"A"}
SeekTimes == {-1, 1, TrackFrames + 1}

InitPlay == Constructed(FullSidecars)

FillWorker(d) == FillLoop(d) \/ FillMeasure(d) \/ FillAcquire(d) \/ FillBody(d)

NextPlay ==
    \/ \E d \in PlayDecks, f \in {1, 2} : LoadTrack(d, f)
    \/ \E d \in PlayDecks : Play(d)
    \/ \E d \in PlayDecks : Pause(d)
    \/ \E d \in PlayDecks : StopBegin(d)
    \/ StopClear
    \/ \E d \in PlayDecks, t \in SeekTimes : SeekClear(d, t)
    \/ SeekSet
    \/ \E d \in PlayDecks : FillWorker(d)

SpecPlay == InitPlay /\ [][NextPlay]_vars

(* The pull path: the stream runs, one deck is loaded, played and paused,  *)
(* its fill worker produces and the audio callback consumes.               *)
InitPull == Constructed(FullSidecars)

NextPull ==
    \/ Start(120)
    \/ \E d \in PlayDecks : LoadTrack(d, 1)
    \/ \E d \in PlayDecks : Play(d)
    \/ \E d \in PlayDecks : Pause(d)
    \/ \E d \in PlayDecks : FillWorker(d)
    \/ AudioCallback({BlockFrames})

SpecPull == InitPull /\ [][NextPull]_vars

(* Loading: the control thread loads files whose sidecars hold nothing, a  *)
(* BPM, or a BPM and a key, and plays or pauses the deck, while the        *)
(* key-analysis workers the loads started run.                             *)
SidecarChoices ==
    {sc \in [Files -> {NoEntry} \cup {BpmOnly(f) : f \in Files}
                                \cup {BpmAndKey(f) : f \in Files}] :
        \A f \in Files : sc[f] \in {NoEntry, BpmOnly(f), BpmAndKey(f)}}

InitLoad == \E sc \in SidecarChoices : Constructed(sc)

KeyWorker(w) ==
    \/ \E ok \in BOOLEAN : KeyWorkerAnalyzed(w, ok)
    \/ KeyCallbackCheck(w)
    \/ KeyCallbackApply(w)

NextLoad ==
    \/ \E d \in PlayDecks, f \in Files : LoadTrack(d, f)
    \/ \E d \in PlayDecks : Play(d)
    \/ \E d \in PlayDecks : Pause(d)
    \/ \E w \in workers : KeyWorker(w)

SpecLoad == InitLoad /\ [][NextLoad]_vars

(* The analysis cache: the loads and the key worker of SpecLoad, and BPM   *)
(* results handed to on_bpm_detected for the track the deck holds, with    *)
(* the deck's token or an older one.                                       *)
BpmConfidences == {80}
BpmTokens == 1..MaxLoads

NextCache ==
    \/ \E d \in PlayDecks, f \in Files : LoadTrack(d, f)
    \/ \E w \in workers : KeyWorker(w)
    \/ \E d \in PlayDecks, token \in BpmTokens, confidence \in BpmConfidences :
          /\ deck[d].track_path # None
          /\ OnBpmDetected(d, TrueBpm(deck[d].track_path), confidence, token)

SpecCache == InitLoad /\ [][NextCache]_vars

(* The batch analyzer: one run over the file list, with stop, pause and    *)
(* resume requested from the UI thread at any moment.                      *)
InitBatch == Constructed(NoSidecars)

NextBatch ==
    \/ BatchStart
    \/ RequestStop
    \/ PauseAnalysis
    \/ ResumeAnalysis
    \/ RunBegin
    \/ RunLoopTop
    \/ RunPauseSleep
    \/ RunStartFile
    \/ \E success \in BOOLEAN : RunFile(success)
    \/ RunFinish

SpecBatch == InitBatch /\ [][NextBatch]_vars

(* The locks: every thread of the engine runs its operations, one lock     *)
(* step at a time, in every interleaving.                                  *)
InitLocks == Constructed(FullSidecars)

NextLocks ==
    \/ \E t \in Threads : \E locks \in Operations(t) : EnterOperation(t, locks)
    \/ \E t \in Threads : AcquireLock(t)
    \/ \E t \in Threads : ReleaseLock(t)

SpecLocks == InitLocks /\ [][NextLocks]_vars

(* The mixer: deck A plays file 1 and deck B file 2, their fill workers    *)
(* have rendered the first frames of each into the rings; the audio        *)
(* callback mixes while the controls are moved, also beyond their ranges.  *)
CrossfaderInputs == {-3, 1}
VolumeInputs == {6}
GainInputs == {5}

\* a deck after load_track(f), play() and `rendered` frames of _fill_ring_buffer
PlayingDeck(f, rendered) ==
    [LoadDecoded(LoadLookup(DeckInit, f), f) EXCEPT !.is_playing = TRUE,
                                                    !.position = rendered]

InitMixer ==
    /\ mc = MasterClockInit
    /\ BMP_CACHE = [f \in Files |-> IF Readable(f) THEN BpmAndKey(f) ELSE NoEntry]
    /\ sidecar = FullSidecars
    /\ clock = [d \in Decks |-> AudioClockPlayFromSamples(AudioClockInit, 0, MasterClockInit)]
    /\ \E ka \in 0..FillTarget, kb \in 0..FillTarget :
          /\ deck = [d \in Decks |-> IF d = "A" THEN PlayingDeck(1, ka)
                                     ELSE PlayingDeck(2, kb)]
          /\ ring = [d \in Decks |-> IF d = "A" THEN RenderChunk(1, 0, ka)
                                     ELSE RenderChunk(2, 0, kb)]
    /\ buffer_lock = [d \in Decks |-> "free"]
    /\ fill = [d \in Decks |-> [pc |-> "loop", target |-> 0]]
    /\ audio = AudioIdle
    /\ ctl = [pc |-> "idle", d |-> "A", tgt |-> 0]
    /\ mixer = MixerInit
    /\ outdata = <<>>
    /\ workers = {}
    /\ sync = SyncIdle
    /\ tps = TempoPhaseSyncInit
    /\ tm = TempoMapManagerInit
    /\ batch = BatchBpmAnalyzerInit
    /\ lk = LocksInit

NextMixer ==
    \/ Start(120)
    \/ \E v \in CrossfaderInputs : SetCrossfader(v)
    \/ \E v \in VolumeInputs : SetMasterVolume(v)
    \/ \E d \in Decks, v \in GainInputs : SetDeckGain(d, v)
    \/ AudioCallback({BlockFrames})

SpecMixer == InitMixer /\ [][NextMixer]_vars

\* the tempo controls of both decks: loads, the tempo fader, the pitch range, the
\* BPM knob and SYNC
TempoSidecars == {FullSidecars, [FullSidecars EXCEPT ![2] = NoEntry]}
TempoInputs == {400, 1000, 2000}
BpmTargets == {132}
TempoFiles == {1, 2}
SyncDecks == {"B"}

InitTempo == \E sc \in TempoSidecars : Constructed(sc)

NextTempo ==
    \/ \E d \in Decks, f \in TempoFiles : LoadTrack(d, f)
    \/ \E d \in Decks, r \in TempoInputs : SetTempo(d, r)
    \/ \E d \in SyncDecks, k \in PitchRangeKeys : SetPitchRange(d, k)
    \/ \E d \in SyncDecks, bpm \in BpmTargets : SetBpmTarget(d, bpm)
    \/ \E d \in SyncDecks : \E m \in Decks \ {d} : SyncToDeck(d, m)
    \/ SyncRampStep
    \/ SyncReturn

SpecTempo == InitTempo /\ [][NextTempo]_vars

\* the engine being started and stopped around one deck that loads and plays; the
\* device calls back only while the stream is started
InitEngine == Constructed(FullSidecars)

\* the callback as the started stream invokes it
StreamCallback(sizes) ==
    \/ mixer.audio_stream = "started" /\ \E frames \in sizes : AudioCallbackBegin(frames)
    \/ AudioMasterAdd
    \/ \E d \in Decks : AudioLock(d)
    \/ \E d \in Decks : AudioPop(d)
    \/ \E d \in Decks, popped \in BOOLEAN : AudioPullRaises(d, popped)
    \/ \E raised \in BOOLEAN : AudioMix(raised)

NextEngine ==
    \/ \E outcome \in StreamOutcomes : StartAudio(outcome)
    \/ StopAudio
    \/ \E d \in PlayDecks : LoadTrack(d, 1)
    \/ \E d \in PlayDecks : Play(d)
    \/ \E d \in PlayDecks : FillWorker(d)
    \/ StreamCallback({BlockFrames})

SpecEngine == InitEngine /\ [][NextEngine]_vars

\* Tempo/phase sync between two decks that were loaded, sought to a frame and
\* started: the control thread enables and disables sync, moves the tempo faders,
\* pauses, and runs update_sync at its interval
MaxTicks == 3
StartFrames == {0, 1}

\* a deck after load_track(f), seek_to(start) and play(), its ring not filled yet
StartedDeck(f, start) ==
    [LoadDecoded(LoadLookup(DeckInit, f), f) EXCEPT !.is_playing = TRUE,
                                                    !.position = start]

\* both decks started, A on file fa from frame sa and B on file fb from frame sb,
\* beside the sidecars sc, with the MasterClock m and the mixer mx
StartedDecks(sc, m, mx, fa, sa, fb, sb) ==
    /\ mc = m
    /\ sidecar = sc
    /\ BMP_CACHE = [f \in Files |-> IF f \in {fa, fb} /\ sc[f].bmp > 0 THEN sc[f]
                                     ELSE NoEntry]
    /\ deck = [d \in Decks |-> IF d = "A" THEN StartedDeck(fa, sa)
                                ELSE StartedDeck(fb, sb)]
    /\ clock = [d \in Decks |->
                  AudioClockPlayFromSamples(AudioClockInit, IF d = "A" THEN sa ELSE sb, m)]
    /\ ring = [d \in Decks |-> <<>>]
    /\ buffer_lock = [d \in Decks |-> "free"]
    /\ fill = [d \in Decks |-> [pc |-> "loop", target |-> 0]]
    /\ audio = AudioIdle
    /\ ctl = [pc |-> "idle", d |-> "A", tgt |-> 0]
    /\ mixer = mx
    /\ outdata = <<>>
    /\ workers = {}
    /\ sync = SyncIdle

InitSync ==
    /\ \E sc \in TempoSidecars, fa \in TempoFiles, fb \in TempoFiles :
       \E sa \in StartFrames, sb \in StartFrames :
          StartedDecks(sc, MasterClockInit, MixerInit, fa, sa, fb, sb)
    /\ tps = TempoPhaseSyncInit
    /\ tm = TempoMapManagerInit
    /\ batch = BatchBpmAnalyzerInit
    /\ lk = LocksInit

SyncTempoInputs == {2000}

NextSync ==
    \/ \E d \in SyncDecks : \E m \in (Decks \ {d}) \cup {NoDeck} : \E enabled \in BOOLEAN :
          EnableTempoPhaseSync(d, m, enabled)
    \/ UpdateSync(MaxTicks)
    \/ \E d \in Decks, r \in SyncTempoInputs : SetTempo(d, r)
    \/ \E d \in SyncDecks : Pause(d)

SpecSync == InitSync /\ [][NextSync]_vars

\* The phase-locked loop at work: the stream runs, both decks were started with
\* deck B synced to master A, nobody touches the tempo faders, the audio callback
\* advances the MasterClock and update_sync runs once per interval
PllTicks == 100
PllFiles == {1, 3}

StartedMixer == [MixerInit EXCEPT !.audio_stream = "started", !.is_streaming = TRUE]

InitPll ==
    /\ \E fb \in PllFiles : \E sa \in StartFrames, sb \in StartFrames :
          StartedDecks(FullSidecars, MasterClockStart(MasterClockInit, MixerLatencyMs),
                       StartedMixer, 1, sa, fb, sb)
    /\ tps = enable_sync(set_decks(TempoPhaseSyncInit, "B", "A"), TRUE)
    /\ tm = TempoMapManagerInit
    /\ batch = BatchBpmAnalyzerInit
    /\ lk = LocksInit

NextPll ==
    \/ UpdateSync(PllTicks)
    \/ StreamCallback({BlockFrames})

SpecPll == InitPll /\ [][NextPll]_vars

\* The loop while the DJ moves the synced deck: both decks play file 1, deck B
\* follows master A, update_sync runs once per interval, and the control thread
\* seeks deck B onto the frame of the cue
ReseekTicks == 40
CueFrames == {1}

InitReseek ==
    /\ \E sa \in StartFrames, sb \in StartFrames :
          StartedDecks(FullSidecars, MasterClockStart(MasterClockInit, MixerLatencyMs),
                       StartedMixer, 1, sa, 1, sb)
    /\ tps = enable_sync(set_decks(TempoPhaseSyncInit, "B", "A"), TRUE)
    /\ tm = TempoMapManagerInit
    /\ batch = BatchBpmAnalyzerInit
    /\ lk = LocksInit

NextReseek ==
    \/ UpdateSync(ReseekTicks)
    \/ \E d \in SyncDecks, t \in CueFrames : SeekClear(d, t)
    \/ SeekSet

SpecReseek == InitReseek /\ [][NextReseek]_vars

\* Phase readings while the clocks drift apart: both decks were started, deck B
\* follows master A, the stream runs, the control thread pauses deck B and moves
\* the master's tempo fader, and update_sync and the telemetry read the phase
PhaseTicks == 2
PhaseTempos == {1250}

InitPhase ==
    /\ \E fa \in TempoFiles, sa \in StartFrames, sb \in StartFrames :
          StartedDecks(FullSidecars, MasterClockStart(MasterClockInit, MixerLatencyMs),
                       StartedMixer, fa, sa, 1, sb)
    /\ tps = enable_sync(set_decks(TempoPhaseSyncInit, "B", "A"), TRUE)
    /\ tm = TempoMapManagerInit
    /\ batch = BatchBpmAnalyzerInit
    /\ lk = LocksInit

NextPhase ==
    \/ UpdateSync(PhaseTicks)
    \/ StreamCallback({BlockFrames})
    \/ \E d \in SyncDecks : Pause(d)
    \/ \E d \in Decks \ SyncDecks, r \in PhaseTempos : SetTempo(d, r)

SpecPhase == InitPhase /\ [][NextPhase]_vars

\* Key lock and tempo on both decks, with and without pyrubberband
KeyLockTempos == {1000, 1250}

InitKeyLock == \E available \in BOOLEAN : ConstructedWith(FullSidecars, available)

NextKeyLock ==
    \/ \E d \in Decks, enabled \in BOOLEAN : SetKeyLock(d, enabled)
    \/ \E d \in Decks, r \in KeyLockTempos : SetTempo(d, r)
    \/ \E d \in Decks, k \in PitchRangeKeys : SetPitchRange(d, k)

SpecKeyLock == InitKeyLock /\ [][NextKeyLock]_vars

\* Tempo maps: built from a BPM analysis or loaded from the tempo-map file beside
\* the track, shifted by the grid offset, saved, and asked for conversions
MaxTempoSamples == 10
MaxBeatSteps == 12
BeatStep == 130
TempoBpms == {90, 120}
BeatOffsets == {0, 3}
GridOffsets == {0 - 700, 0, 700}
SamplePositions == 0..MaxTempoSamples
BeatPositions == {k * BeatStep : k \in 0..MaxBeatSteps}

\* a tempo change at sample 5, with the beat index the first segment reaches there
PiecewiseSegments == <<TempoSegment(0, 0, 120), TempoSegment(5, 600, 90)>>
\* the same tempo change with a beat index the first segment does not reach
GapSegments == <<TempoSegment(0, 0, 120), TempoSegment(5, 900, 90)>>
\* a segment TempoSegment refuses
RefusedSegments == <<TempoSegment(0, 0, 0)>>

TempoMapFile(segments, version) ==
    [exists |-> TRUE, segments |-> segments, grid_offset_beats |-> 0, version |-> version]

TempoMapFiles ==
    {NoFile, TempoMapFile(GapSegments, CurrentVersion),
     TempoMapFile(RefusedSegments, CurrentVersion)}
      \cup {TempoMapFile(PiecewiseSegments, v) : v \in {CurrentVersion, "2.0", "missing"}}

InitTempoMap ==
    /\ EngineConstructed(FullSidecars, TRUE)
    /\ \E file \in TempoMapFiles : tm = [TempoMapManagerInit EXCEPT !.file = file]
    /\ batch = BatchBpmAnalyzerInit
    /\ lk = LocksInit

NextTempoMap ==
    \/ \E bpm \in TempoBpms, off \in BeatOffsets : CreateFromBpmAnalysis(bpm, off)
    \/ LoadOrCreateFromFile
    \/ SaveToFileCache
    \/ ClearCache
    \/ \E g \in GridOffsets : SetGridOffset(g)
    \/ \E n \in SamplePositions : SamplesToBeats(n)
    \/ \E b \in BeatPositions : BeatsToSamples(b)

SpecTempoMap == InitTempoMap /\ [][NextTempoMap]_vars

(***************************************************************************)
(* C1  analysis results are applied only if their token is current         *)
(***************************************************************************)
AnalysisFields(dk) ==
    <<dk.detected_bpm, dk.bmp_confidence, dk.bpm_status, dk.key_detected, dk.key_status>>

\* C1: a step of an analysis worker whose token differs from the deck's current
\* load token leaves the deck's BPM and key fields, and their statuses, as they were.
C1_StaleResultIgnored ==
    [][\A w \in workers :
          (w.token # deck[w.d].load_token /\ KeyWorker(w))
             => AnalysisFields(deck'[w.d]) = AnalysisFields(deck[w.d])]_vars

(***************************************************************************)
(* C2  a successful load_track resets the position and empties the ring    *)
(***************************************************************************)
\* C2: after a load_track that returns True the deck's position is 0 and its ring
\* holds no frame of the file played before.
C2_LoadEmptiesRing ==
    [][\A d \in Decks, f \in Files :
          (LoadTrack(d, f) /\ LoadReturnsTrue(f))
             => (deck'[d].position = 0 /\ ring'[d] = <<>>)]_vars

(***************************************************************************)
(* C3  a failed load_track changes nothing                                 *)
(***************************************************************************)
TrackFields(dk) ==
    <<dk.audio_data, dk.path, dk.track_path, dk.current_uid, dk.position, dk.is_playing,
      dk.is_paused>>

\* C3: a load_track that returns False on a deck holding a track, playing or not,
\* leaves the track, its analysis fields and the transport of the deck unchanged.
C3_FailedLoadKeepsTrack ==
    [][\A d \in Decks, f \in Files :
          (LoadTrack(d, f) /\ ~LoadReturnsTrue(f)
             /\ deck[d].audio_data # None /\ ~deck[d].is_paused)
             => /\ TrackFields(deck'[d]) = TrackFields(deck[d])
                /\ AnalysisFields(deck'[d]) = AnalysisFields(deck[d])]_vars

(***************************************************************************)
(* C4  the transport state machine                                         *)
(***************************************************************************)
TransportState(dk) ==
    IF dk.audio_data = None THEN "Empty"
    ELSE IF dk.is_playing THEN "Playing"
    ELSE IF dk.is_paused THEN "Paused"
    ELSE "Ready"

\* C4: the transport state of a deck changes only by a load (to Ready), by play()
\* from Ready or Paused (to Playing), by pause() from Playing (to Paused) and by
\* stop() from Playing or Paused (to Ready).
C4_TransportTransitions ==
    [][\A d \in Decks :
          LET from == TransportState(deck[d])
              to == TransportState(deck'[d])
          IN from # to =>
               \/ to = "Ready" /\ \E f \in Files : LoadTrack(d, f)
               \/ from \in {"Ready", "Paused"} /\ to = "Playing" /\ Play(d)
               \/ from = "Playing" /\ to = "Paused" /\ Pause(d)
               \/ from \in {"Playing", "Paused"} /\ to = "Ready" /\ StopBegin(d)]_vars

(***************************************************************************)
(* C5  the limiter                                                         *)
(***************************************************************************)
\* C5: every sample the audio callback writes to outdata lies in [-0.95, 0.95],
\* whatever the decks delivered and wherever the gains, the crossfader and the
\* master volume stand.
C5_OutputWithinCeiling ==
    \A i \in DOMAIN outdata : Abs(outdata[i]) <= LimiterCeiling * MixUnit

\* C5 witness: a block in which the sum of both decks went beyond the ceiling on
\* either side and was cut to it.
C5_Witness ==
    /\ \E i \in DOMAIN outdata : outdata[i] = LimiterCeiling * MixUnit
    /\ \E i \in DOMAIN outdata : outdata[i] = 0 - LimiterCeiling * MixUnit

(***************************************************************************)
(* C6  pop_audio_chunk on a ring that holds too little                     *)
(***************************************************************************)
Pulled(d) == IF d = "A" THEN audio'.audio_a ELSE audio'.audio_b

C7_AudioNeverWaits ==
    \A d \in Decks : ~(audio.pc = LockPc(d) /\ buffer_lock[d] = "fill")

(***************************************************************************)
(* C9  AudioClock.pause latches the position                               *)
(***************************************************************************)
\* C9: pause(), called between two audio callbacks, leaves the position the
\* deck's clock reports where it was just before the call.
C9_PauseLatches ==
    [][\A d \in Decks :
          (Pause(d) /\ audio.pc = "idle")
             => NowSamples(clock'[d], mc') = NowSamples(clock[d], mc)]_vars

(***************************************************************************)
(* C10  seek_to                                                            *)
(***************************************************************************)
\* C10: when seek_to returns, the position is the clamped target, the clock reads
\* the target, and the ring holds nothing but frames rendered from the target on.
C10_SeekLeavesNoStaleFrames ==
    [][SeekSet =>
          /\ deck'[ctl.d].position = ctl.tgt
          /\ NowSamples(clock'[ctl.d], mc') = ctl.tgt
          /\ ring'[ctl.d] =
               RenderChunk(deck[ctl.d].audio_data, ctl.tgt, Len(ring'[ctl.d]))]_vars

SyncCandidates(m) ==
    {k * master_playing_bpm(deck[m]) : k \in {1, 2, 4}}

\* the candidate c is one of those closest to 1.0
ClosestToOne(c, d, m) ==
    \A c2 \in SyncCandidates(m) :
       Abs(c - SyncDen(deck[d].detected_bpm)) <= Abs(c2 - SyncDen(deck[d].detected_bpm))

\* c clamped into d's active pitch range
InPitchRange(c, d) ==
    LET r == PITCH_RANGES(deck[d].pitch_range_key)
        unit == MilliOf(SyncDen(deck[d].detected_bpm))
    IN IF c < r.lo * unit THEN r.lo * unit ELSE IF c > r.hi * unit THEN r.hi * unit ELSE c

\* the call sync_to_deck of d against m computes the ratio `applied` (in thousandths)
\* within `slack` (numerator units) of the clamped closest candidate, and hit_limit
\* tells whether the clamp changed it
SyncRatioComputed(d, m, applied, hit_limit, slack) ==
    \E c \in SyncCandidates(m) :
       /\ ClosestToOne(c, d, m)
       /\ hit_limit = (InPitchRange(c, d) # c)
       /\ 2 * Abs(applied * MilliOf(SyncDen(deck[d].detected_bpm)) - InPitchRange(c, d))
             <= slack

SyncCallWithBpm(d, m) == SyncToDeck(d, m) /\ ~BpmMissing(deck[d], deck[m])

\* C11 (as stated): for every pair of positive BPMs and every pitch range, the
\* ratio sync_to_deck applies is exactly the candidate of {0.5 raw, raw, 2 raw}
\* closest to 1.0, clamped into the pitch range, and hit_limit is true exactly when
\* the clamp changed it.
C11_AppliedIsClamped ==
    [][\A d \in SyncDecks : \A m \in Decks \ {d} :
          SyncCallWithBpm(d, m) =>
             /\ sync'.target_ratio % RampSteps = 0
             /\ SyncRatioComputed(d, m, sync'.target_ratio \div RampSteps,
                                   sync'.hit_limit, 0)]_vars

\* C11 (amended): the applied ratio is the clamped closest candidate rounded to the
\* nearest 0.001, so it lies within 0.0005 of it; hit_limit is true exactly when
\* the clamp changed the chosen candidate.
C11_AppliedIsClampedRounded ==
    [][\A d \in SyncDecks : \A m \in Decks \ {d} :
          SyncCallWithBpm(d, m) =>
             /\ sync'.target_ratio % RampSteps = 0
             /\ SyncRatioComputed(d, m, sync'.target_ratio \div RampSteps,
                                   sync'.hit_limit,
                                   MilliOf(SyncDen(deck[d].detected_bpm)))]_vars

\* deck B (110 BPM, range +-16%) has just computed its ratio against deck A playing
\* at 120 BPM: 1.0909... inside the range, applied as 1.091
C11_Witness ==
    /\ ctl.pc = "sync_ramp" /\ sync.i = 0 /\ sync.d = "B"
    /\ deck["B"].detected_bpm = 110 /\ deck["B"].pitch_range_key = "16"
    /\ master_playing_bpm(deck["A"]) = 120 * TempoOne
    /\ sync.target_ratio = 1091 * RampSteps /\ ~sync.hit_limit

(***************************************************************************)
(* C12  the ramp of sync_to_deck                                           *)
(***************************************************************************)
\* v lies between a and b, ends included
Between(a, v, b) == (a <= v /\ v <= b) \/ (b <= v /\ v <= a)

\* C12: every ramp step of sync_to_deck moves tempo_ratio from where it is toward
\* the applied ratio without passing it, step i standing at i/8 of the way from the
\* value at the start of the call; and when sync_to_deck returns, after 8 steps,
\* tempo_ratio equals the applied ratio.
C12_RampMonotone ==
    [][/\ SyncRampStep =>
             /\ Between(deck[sync.d].tempo_ratio, deck'[sync.d].tempo_ratio,
                        sync.target_ratio)
             /\ Between(sync.start, deck[sync.d].tempo_ratio, deck'[sync.d].tempo_ratio)
             /\ RampSteps * (deck'[sync.d].tempo_ratio - sync.start)
                   = (sync.target_ratio - sync.start) * sync'.i
       /\ SyncReturn =>
             /\ sync.i = RampSteps
             /\ deck[sync.d].tempo_ratio = sync.target_ratio
             /\ deck'[sync.d].tempo_ratio = sync'.target_ratio]_vars

\* sync_to_deck has returned after ramping to a ratio other than the one it started at
C12_Witness ==
    /\ ctl.pc = "idle" /\ sync.status = "ok" /\ sync.i = RampSteps
    /\ sync.start # sync.target_ratio
    /\ deck[sync.d].tempo_ratio = sync.target_ratio

(***************************************************************************)
(* C13  sync_to_deck without a BPM                                         *)
(***************************************************************************)
TempoFields(dk) == <<dk.tempo_ratio, dk.rate_target, dk.engine_tempo>>

\* C13: a call of sync_to_deck while the master deck or the calling deck has no
\* detected BPM fails with an error, starts no ramp, and leaves the calling deck's
\* tempo_ratio, rate_target and stretch-engine tempo as they were.
C13_NoBpmNoSync ==
    [][\A d \in SyncDecks : \A m \in Decks \ {d} :
          (SyncToDeck(d, m) /\ (deck[d].detected_bpm = 0 \/ deck[m].detected_bpm = 0))
             => /\ sync'.status = "error"
                /\ ctl'.pc = "idle"
                /\ TempoFields(deck'[d]) = TempoFields(deck[d])]_vars

\* sync_to_deck has just failed on deck B, which holds a track with a BPM and a
\* tempo other than 1.0, because the master deck has no BPM
C13_Witness ==
    /\ sync.status = "error" /\ sync.d = "B" /\ ctl.pc = "idle"
    /\ deck["B"].detected_bpm > 0 /\ deck["A"].detected_bpm = 0
    /\ deck["B"].tempo_ratio # TempoOne

(***************************************************************************)
(* C20  set_bpm_target and tempo_ratio                                     *)
(***************************************************************************)
\* the BPM a ratio is taken against: the detected one, or 100 when none is detected
BpmBase(dk) == IF dk.detected_bpm > 0 THEN dk.detected_bpm ELSE 100

\* C20: after set_bpm_target(bpm) the deck's tempo_ratio is bpm / detected_bpm when a
\* BPM is detected and bpm / 100 otherwise, which is the ratio the fills then use.
C20_BpmTargetSetsTempo ==
    [][\A d \in SyncDecks : \A bpm \in BpmTargets :
          SetBpmTarget(d, bpm)
             => deck'[d].tempo_ratio * BpmBase(deck[d]) = bpm * TempoOne]_vars

(***************************************************************************)
(* C17  the crossfader law of the audio callback                           *)
(***************************************************************************)
\* C17: in every block the audio callback mixes, the weights wA and wB it gives
\* deck A and deck B satisfy wA^2 + wB^2 = 1, and the block, before limiting, is
\* (deck_a * gain_a * wA + deck_b * gain_b * wB) * master volume.
C17_EqualPower ==
    [][AudioMix(FALSE) =>
          /\ mix_a(mixer) * mix_a(mixer) + mix_b(mixer) * mix_b(mixer)
                = WeightUnit * WeightUnit
          /\ outdata' = [i \in 1..audio.frames |->
                           HardClip((audio.audio_a[i] * mixer.gain_a * mix_a(mixer)
                                       + audio.audio_b[i] * mixer.gain_b * mix_b(mixer))
                                    * mixer.master_volume)]]_vars

(***************************************************************************)
(* C18  a failure inside the audio callback                                *)
(***************************************************************************)
\* the callback's try block fails: in a pull from deck A or B, or after the pulls
CallbackFails ==
    \/ \E d \in Decks, popped \in BOOLEAN : AudioPullRaises(d, popped)
    \/ AudioMix(TRUE)

\* C18: when a pull from either deck, the gain, the mix or the metering raises, the
\* callback still returns to the device, holding no deck lock, and the whole output
\* block of that callback is zeros.
C18_FailureIsSilence ==
    [][CallbackFails =>
          /\ outdata' = [i \in 1..audio.frames |-> 0]
          /\ audio'.pc = "idle"
          /\ \A d \in Decks : buffer_lock'[d] # "audio"]_vars

\* one callback has taken a block of audible frames from each deck, none has
\* underrun, and the block handed to the device is silence all the same
C18_Witness ==
    /\ audio.pc = "idle" /\ outdata = [i \in 1..BlockFrames |-> 0]
    /\ \A d \in Decks :
          /\ deck[d].position = FillTarget /\ Len(ring[d]) = FillTarget - BlockFrames
          /\ deck[d].underruns = 0

(***************************************************************************)
(* C19  start_audio when the output stream cannot be opened or started     *)
(***************************************************************************)
\* C19: when creating or starting the output stream fails, start_audio returns
\* False and leaves the engine not started: is_streaming false, no audio stream
\* held, and the MasterClock not running.
C19_FailedStartLeavesStopped ==
    [][\A outcome \in StreamOutcomes \ {"ok"} :
          StartAudio(outcome) =>
             /\ ~StartAudioReturns(outcome)
             /\ ~mixer'.is_streaming
             /\ mixer'.audio_stream = "none"
             /\ ~mc'.is_running]_vars

(***************************************************************************)
(* C14  enable_tempo_phase_sync when a BPM is missing                      *)
(***************************************************************************)
\* C14: when the target deck or the master deck has no detected BPM, a call of
\* enable_tempo_phase_sync with enabled = True leaves sync_enabled false, and no
\* update_sync made while the synced pair lacks a BPM changes the target deck.
C14_MissingBpmRefused ==
    [][/\ \A d \in SyncDecks : \A m \in Decks \ {d} :
             (EnableTempoPhaseSync(d, m, TRUE)
                /\ (deck[d].detected_bpm = 0 \/ deck[m].detected_bpm = 0))
                => ~tps'.sync_enabled
       /\ (UpdateSync(MaxTicks) /\ tps.target_deck # NoDeck /\ tps.master_deck # NoDeck
             /\ (deck[tps.target_deck].detected_bpm = 0
                    \/ deck[tps.master_deck].detected_bpm = 0))
             => deck' = deck]_vars

(***************************************************************************)
(* C16  what update_sync writes                                            *)
(***************************************************************************)
\* the deck's fields other than the tempo of its TimeStretchEngine
SliderState(dk) == [dk EXCEPT !.engine_tempo = 0]

\* C16: an update_sync step changes, of both decks, at most the tempo of the
\* target deck's TimeStretchEngine: the target's tempo_ratio, rate_target,
\* bpm_target and nudge state and every other field of it stay as they were, and
\* the master deck (every deck other than the target) is not changed at all.
C16_OnlyEngineTempo ==
    [][UpdateSync(MaxTicks) =>
          \A d \in Decks :
             IF d = tps.target_deck
             THEN /\ SliderState(deck'[d]) = SliderState(deck[d])
                  /\ clock'[d] = clock[d] /\ ring'[d] = ring[d]
             ELSE deck'[d] = deck[d] /\ clock'[d] = clock[d] /\ ring'[d] = ring[d]]_vars

\* an update has just corrected deck B against master A: the engine tempo of B has
\* left the slider's tempo_ratio, which the user had moved away from 1.0
C16_Witness ==
    /\ tps.sync_enabled /\ tps.target_deck = "B" /\ tps.master_deck = "A"
    /\ tps.tempo_correction_factor # 0 /\ Len(tps.error_history) > 0
    /\ deck["B"].tempo_ratio # TempoOne
    /\ deck["B"].engine_tempo # deck["B"].tempo_ratio

(***************************************************************************)
(* C15  convergence of the phase-locked loop                               *)
(***************************************************************************)
\* update_sync calls in 5 s, one per update_interval of 50 ms
UpdatesIn5s == 100

\* C15: with sync enabled, both decks playing, the master's tempo constant and a
\* first phase error within [-0.1, 0.1] beats, the phase error that update_sync
\* measures is below 0.02 beats in magnitude once 100 updates have been made.
C15_PllConverges ==
    (/\ tps.sync_enabled /\ tps.target_deck # NoDeck /\ tps.master_deck # NoDeck
     /\ \A d \in Decks : deck[d].is_playing
     /\ Len(tps.error_history) >= UpdatesIn5s
     /\ Abs(tps.error_history[1]) <= 100)
       => Abs(tps.phase_offset_beats) < 20

(***************************************************************************)
(* C21  set_key_lock(True) without high-quality time-stretch               *)
(***************************************************************************)
\* C21: when high-quality time-stretch is unavailable, set_key_lock(True) returns
\* normally; afterwards the engine's key lock is off, chunks are brought to tempo
\* by linear resampling, high_quality_available reads false, and the key-lock state
\* the deck reports is the engine's.
C21_KeyLockFallback ==
    [][\A d \in Decks :
          (SetKeyLock(d, TRUE) /\ ~deck[d].high_quality_available)
             => /\ ~deck'[d].key_lock_enabled
                /\ ProcessingPath(deck'[d]) # "rubberband"
                /\ ~deck'[d].high_quality_available
                /\ is_key_lock_enabled(deck'[d]) = deck'[d].key_lock_enabled]_vars

(***************************************************************************)
(* C22  the round trip beats -> samples -> beats                           *)
(***************************************************************************)
\* the beats one sample spans at sample n of the map
SampleBeats(map, n) == find_segment_for_sample(map, n).local_bpm

\* the last call was beats_to_samples(b) followed by samples_to_beats, and the
\* beats returned are within one sample of b
RoundTripClose ==
    Abs(tm.call.beats - tm.call.arg) <= SampleBeats(tm.cache, tm.call.samples)

\* the first segment starts at beat 0, and no segment starts at an earlier beat
\* than its predecessor or at a later beat than its predecessor reaches
NoBeatGap(map) ==
    /\ map.segments[1].beat_index = 0
    /\ \A i \in 1..(Len(map.segments) - 1) :
          LET seg == map.segments[i]
              next == map.segments[i + 1]
          IN /\ seg.beat_index <= next.beat_index
             /\ next.beat_index - seg.beat_index
                  <= (next.sample_position - seg.sample_position) * seg.local_bpm

\* C22 as stated: for every TempoMap, any grid offset and every beat position
\* b >= 0, samples_to_beats(beats_to_samples(b)) is within one sample's beats of b.
C22_RoundTrip ==
    tm.call.op = "beats_to_samples" => RoundTripClose

\* C22, amended: the round trip is within one sample's beats of b for every map
\* without a beat gap and every beat position b >= max(0, grid_offset_beats), the
\* beat of sample 0.
C22_RoundTripFromFirstBeat ==
    (/\ tm.call.op = "beats_to_samples"
     /\ NoBeatGap(tm.cache)
     /\ tm.call.arg >= Max(0, tm.cache.grid_offset_beats))
       => RoundTripClose

\* a beat past the tempo change of a piecewise map with a negative grid offset was
\* converted to a sample of the second segment and back, losing part of a sample
C22_Witness ==
    /\ tm.call.op = "beats_to_samples" /\ tm.call.arg > 0
    /\ Len(tm.cache.segments) = 2 /\ NoBeatGap(tm.cache)
    /\ tm.cache.segments[1].local_bpm # tm.cache.segments[2].local_bpm
    /\ tm.cache.grid_offset_beats < 0
    /\ tm.call.samples > tm.cache.segments[2].sample_position
    /\ tm.call.beats # tm.call.arg /\ tm.call.beats > 0

(***************************************************************************)
(* C23  samples_to_beats at constant BPM                                   *)
(***************************************************************************)
\* every segment of the map has the BPM of the first
ConstantBpm(map) ==
    \A i \in DOMAIN map.segments : map.segments[i].local_bpm = map.segments[1].local_bpm

\* n * B / (60 * sample_rate) + grid_offset_beats for the call last made
LinearBeats ==
    tm.call.arg * tm.cache.segments[1].local_bpm + tm.cache.grid_offset_beats

C24_VersionMismatchRejected ==
    [][(/\ LoadOrCreateFromFile
        /\ tm.cache = NoMap /\ tm.file.exists
        /\ tm.file.version # CurrentVersion)
          => /\ load_from_file(tm.file) = NoMap
             /\ tm'.cache = NoMap]_vars

(***************************************************************************)
(* C25  cache writes merge field by field                                   *)
(***************************************************************************)
\* C25: a delivered BPM result leaves the key that the cache holds for the deck's
\* UID in place, and a delivered key result leaves the BPM it holds in place.
C25_MergingUpsert ==
    [][/\ \A d \in Decks, token \in BpmTokens, confidence \in BpmConfidences :
            (/\ deck[d].track_path # None
             /\ OnBpmDetected(d, TrueBpm(deck[d].track_path), confidence, token)
             /\ deck[d].current_uid # None
             /\ BMP_CACHE[deck[d].current_uid].key # None)
               => BMP_CACHE'[deck[d].current_uid].key = BMP_CACHE[deck[d].current_uid].key
       /\ \A w \in workers :
            (/\ KeyCallbackApply(w)
             /\ deck[w.d].current_uid # None
             /\ BMP_CACHE[deck[w.d].current_uid].bmp # None)
               => BMP_CACHE'[deck[w.d].current_uid].bmp = BMP_CACHE[deck[w.d].current_uid].bmp
      ]_vars

(***************************************************************************)
(* C26  a load that finds the BPM in the cache                              *)
(***************************************************************************)
KeyWorkerOf(d, f) ==
    [d |-> d, token |-> deck[d].load_token + 1, file |-> f, pc |-> "analyze",
     result |-> None]

CacheHit(f) == CachedResult(f).bmp > 0

BpmFromCache(d, f) ==
    /\ deck'[d].detected_bpm = CachedResult(f).bmp
    /\ deck'[d].bpm_status = "ok"

\* C26 as stated: a load_track that finds a BPM for the file in the memory cache or
\* in the sidecar starts no analysis worker and leaves detected_bpm at the cached
\* BPM with bpm_status "ok".
C26_CacheHitNoWorker ==
    [][\A d \in Decks, f \in Files :
          (LoadTrack(d, f) /\ CacheHit(f))
             => (workers' = workers /\ BpmFromCache(d, f))]_vars

\* C26: a load_track that finds a BPM for the file in the memory cache or in the
\* sidecar leaves detected_bpm at the cached BPM with bpm_status "ok"; it starts no
\* worker when the file cannot be decoded or the cached entry also holds the key,
\* and otherwise exactly one worker, the key analysis of that file with the new token.
C26_CacheHitOnlyKeyWorker ==
    [][\A d \in Decks, f \in Files :
          (LoadTrack(d, f) /\ CacheHit(f))
             => /\ BpmFromCache(d, f)
                /\ workers' = IF Readable(f) /\ CachedResult(f).key = None
                              THEN workers \cup {KeyWorkerOf(d, f)} ELSE workers]_vars

\* a deck whose load found the BPM in the cache and started the key analysis
C26_Witness ==
    \E d \in Decks :
        /\ deck[d].load_token > 0 /\ deck[d].track_path # None
        /\ deck[d].bpm_status = "ok" /\ deck[d].detected_bpm = TrueBpm(deck[d].track_path)
        /\ deck[d].key_status = "pending"
        /\ \E w \in workers : w.d = d /\ w.token = deck[d].load_token /\ w.pc = "analyze"

(***************************************************************************)
(* C27  cooperative cancel and pause of the batch analyzer                  *)
(***************************************************************************)
\* C27: the batch analyzer begins no file while it is paused, begins no file once
\* request_stop has been called on the started thread, and emits finished_all at
\* most once.
C27_CooperativeCancel ==
    [][/\ (batch.stop_requested \/ batch.pause_flag) => batch'.file_idx = batch.file_idx
       /\ batch'.finished_all <= 1]_vars

(***************************************************************************)
(* C28  no result is stored under another track's UID or path               *)
(***************************************************************************)
OwnValues(entry, f) ==
    /\ entry.bmp \in {None, TrueBpm(f)}
    /\ entry.key \in {None, TrueKey(f)}

\* C28: every entry of the analysis cache, and every sidecar, holds only the BPM
\* and the key analysed from the file it is keyed by.
C28_NoCrossTrackWrites ==
    \A f \in Files : OwnValues(BMP_CACHE[f], f) /\ OwnValues(sidecar[f], f)

(***************************************************************************)
(* C29  a playing deck has a fill worker                                    *)
(***************************************************************************)
\* C29: whenever a deck with a loaded track is playing, its fill worker thread is
\* alive and has not been asked to stop.
C29_PlayingHasWorker ==
    \A d \in Decks :
        (deck[d].is_playing /\ deck[d].audio_data # None)
           => (Alive(d) /\ ~deck[d].should_stop_worker)

(***************************************************************************)
(* C30  a stopped deck stays at position 0 with an empty ring               *)
(***************************************************************************)
AtZero(dk, rg) == dk.position = 0 /\ rg = <<>>

\* stop() has returned and neither play nor pause has been called since
StopReturned(d) ==
    /\ ctl.pc = "idle"
    /\ deck[d].should_stop_worker /\ ~deck[d].is_playing /\ ~deck[d].is_paused

\* C30: when stop() returns the deck's position is 0 and its ring is empty, and no
\* step of the fill worker taken after that moves the position or puts a frame
\* into the ring.
C30_StoppedStaysAtZero ==
    [][\A d \in Decks :
          /\ (StopClear /\ ctl.d = d) => AtZero(deck'[d], ring'[d])
          /\ (StopReturned(d) /\ AtZero(deck[d], ring[d]) /\ FillWorker(d))
                => AtZero(deck'[d], ring'[d])]_vars

(***************************************************************************)
(* C31  the locks are taken in one order and no thread waits in a cycle     *)
(***************************************************************************)
Held(t) == {l \in LockNames : lk.holder[l] = t}

Wants(t, l) ==
    /\ lk.todo[t] # <<>>
    /\ Head(lk.todo[t]).op = "acquire"
    /\ Head(lk.todo[t]).lock = l

\* t waits for a lock that u holds
WaitsFor(t, u) == \E l \in LockNames : Wants(t, l) /\ lk.holder[l] = u

\* the threads reached from t by following WaitsFor, at most n times
RECURSIVE WaitChain(_, _)
WaitChain(ts, n) ==
    IF n = 0 THEN ts
    ELSE WaitChain(ts \cup {u \in Threads : \E t \in ts : WaitsFor(t, u)}, n - 1)

InWaitCycle(t) ==
    t \in WaitChain({u \in Threads : WaitsFor(t, u)}, Cardinality(Threads))

\* the order: the mixer's and the controller's lock first, then a deck's ring, then
\* the deck's tempo, its engine and the AudioClocks, the MasterClock last
LockRank(l) ==
    CASE l \in {MixerLock, SyncLock} -> 1
      [] l \in {BufferLock(d) : d \in Decks} -> 2
      [] l \in {TempoLock(d) : d \in Decks} \cup {StretchLock(d) : d \in Decks}
               \cup {AudioClockLock} -> 3
      [] l = ClockLock -> 4

\* C31: a thread that asks for a lock holds only locks that come earlier in the one
\* order (so never the lock it asks for), and no thread is in a cycle of threads
\* that wait for each other.
C31_NoDeadlock ==
    \A t \in Threads :
        /\ \A l \in LockNames :
              Wants(t, l) => \A h \in Held(t) : LockRank(h) < LockRank(l)
        /\ ~InWaitCycle(t)

\* the audio callback, holding the mixer's lock and deck A's ring, waits for the
\* AudioClock lock, which the control thread holds in play_from_samples, while the
\* sync controller under its own lock waits for it as well
C31_Witness ==
    /\ lk.holder[MixerLock] = "audio" /\ lk.holder[BufferLock("A")] = "audio"
    /\ WaitsFor("audio", "control")
    /\ lk.holder[SyncLock] = "sync" /\ WaitsFor("sync", "control")

(***************************************************************************)
(* C32  the ring is a lossless FIFO                                         *)
(***************************************************************************)
IsPrefix(a, b) == Len(a) <= Len(b) /\ SubSeq(b, 1, Len(a)) = a

\* C32: the ring never holds more than its capacity; a step of the fill worker only
\* appends to it; a pull that finds a whole block returns the oldest frames in
\* order and removes exactly those, a pull that does not removes nothing; and no
\* step other than a fill, a pull (one that returns, or one cut short by an
\* exception), stop or seek_to changes the ring.
C32_LosslessFifo ==
    [][\A d \in Decks :
          /\ Len(ring'[d]) <= RingCapacity
          /\ FillWorker(d) => IsPrefix(ring[d], ring'[d])
          /\ (AudioPop(d) /\ Len(ring[d]) >= audio.frames)
                => /\ Pulled(d) = SubSeq(ring[d], 1, audio.frames)
                   /\ Pulled(d) \o ring'[d] = ring[d]
          /\ (AudioPop(d) /\ Len(ring[d]) < audio.frames) => ring'[d] = ring[d]
          /\ ring'[d] # ring[d]
                => \/ FillWorker(d) \/ AudioPop(d)
                   \/ \E popped \in BOOLEAN : AudioPullRaises(d, popped)
                   \/ StopClear \/ \E t \in SeekTimes : SeekClear(d, t)]_vars

\* a block of deck A was pulled while frames enqueued after it wait in the ring
C32_Witness ==
    /\ audio.pc = "lock_b"
    /\ audio.audio_a # Zeros(audio.frames)
    /\ Len(ring["A"]) > 0
    /\ deck["A"].position = Len(audio.audio_a) + Len(ring["A"])

(***************************************************************************)
(* C33  the AudioClock runs only while the deck plays                       *)
(***************************************************************************)
\* C33: between the control thread's calls, the AudioClock of a deck that is not
\* playing is paused, so that the position it reports does not follow the
\* MasterClock.
C33_ClockRunsOnlyWhilePlaying ==
    \A d \in Decks :
        (ctl.pc = "idle" /\ ~deck[d].is_playing) => clock[d].paused

(***************************************************************************)
(* C34  the position stays within the track                                 *)
(***************************************************************************)
\* C34: the position of a loaded deck is never negative and never beyond the end
\* of the track.
C34_PositionWithinTrack ==
    \A d \in Decks :
        deck[d].audio_data # None
           => (0 <= deck[d].position /\ deck[d].position <= TrackFrames)

\* C35: while both decks' AudioClocks are playing, each reports
\* base_samples + (MasterClock total - start_master_samples), and no step of the
\* audio callback changes the difference between the two reported positions,
\* whether or not a deck's ring underruns in it
BothClocksPlaying == \A d \in Decks : ~clock[d].paused

ClockDifference == NowSamples(clock["A"], mc) - NowSamples(clock["B"], mc)

C35_SharedTimeReference ==
    [][(BothClocksPlaying /\ audio' # audio) =>
          /\ BothClocksPlaying'
          /\ \A d \in Decks :
                NowSamples(clock[d], mc)' =
                   clock[d].base_samples
                   + (mc'.audio_samples_total - clock[d].start_master_samples)
          /\ ClockDifference' = ClockDifference]_vars

\* both clocks play, the MasterClock has advanced, deck B has underrun and
\* deck A has served a block, and the callback is past its pulls
C35_Witness ==
    /\ BothClocksPlaying
    /\ mc.audio_samples_total > 0
    /\ deck["B"].underruns > 0
    /\ deck["A"].underruns = 0
    /\ clock["A"].samples_played > clock["B"].samples_played
    /\ audio.pc = "mix"

\* C36: every callback of the started stream first advances the MasterClock by
\* the block's frame count, once, then pulls deck A, then deck B; from the
\* advance to the end of the callback nothing changes the MasterClock total, so
\* no pull sees the value from before the advance
AudioPulling == audio.pc \in {"lock_a", "pop_a", "lock_b", "pop_b", "mix"}

C36_AdvanceThenPullAThenB ==
    [][/\ audio' # audio =>
             /\ audio.pc = "idle" => audio'.pc = "mc_add" /\ mc' = mc
             /\ audio.pc = "mc_add" =>
                   /\ audio'.pc = "lock_a"
                   /\ mc'.audio_samples_total = mc.audio_samples_total + audio.frames
             /\ audio.pc = "lock_a" => audio'.pc = "pop_a"
             /\ audio.pc = "pop_a" => audio'.pc \in {"lock_b", "idle"}
             /\ audio.pc = "lock_b" => audio'.pc = "pop_b"
             /\ audio.pc = "pop_b" => audio'.pc \in {"mix", "idle"}
             /\ audio.pc = "mix" => audio'.pc = "idle"
       /\ (audio.pc # "idle" /\ audio' = audio) =>
             mc'.audio_samples_total = mc.audio_samples_total
       /\ AudioPulling => mc'.audio_samples_total = mc.audio_samples_total]_vars

\* the second callback has advanced the MasterClock and pulled both decks
C36_Witness ==
    /\ audio.pc = "mix"
    /\ mc.audio_samples_total = 2 * audio.frames
    /\ Len(audio.audio_a) = audio.frames
    /\ Len(audio.audio_b) = audio.frames

\* C37: in every sync state left by an update_sync, the tempo correction factor
\* stays within the adaptive limit of the sync quality reported with it
\* (excellent 0.0005, good 0.001, fair 0.002, poor 0.005)
C37_CorrectionWithinReportedLimit ==
    Abs(tps.tempo_correction_factor) <= adaptive_tempo_limit(tps)

\* C38: every phase value lies in (-0.5, 0.5] beats: the phase error update_sync
\* stores and the phase offset the telemetry would report in the same state
C38_PhaseInHalfOpenInterval ==
    /\ tps.phase_offset_beats > 0 - (Milli \div 2)
    /\ tps.phase_offset_beats <= Milli \div 2
    /\ 2 * calculate_phase_offset_beats("A", "B") > 0 - TelemetryBeat
    /\ 2 * calculate_phase_offset_beats("A", "B") <= TelemetryBeat

\* C39: a sync session that has just been started (set_decks and enable_sync(True)
\* done, no phase error taken yet) finds all controller state as construction left
\* it: integral error, last error, filtered derivative, error history, the
\* hysteresis flag, the last applied correction, the gains and the sync quality
ControllerFields ==
    {"integral_error", "last_error", "has_filtered_derivative", "filtered_derivative",
     "error_history", "tempo_correction_active", "has_last_tempo_correction",
     "last_tempo_correction", "kp", "ki", "sync_quality"}

SessionJustStarted ==
    /\ tps.sync_enabled
    /\ tps.target_deck # NoDeck
    /\ tps.master_deck # NoDeck
    /\ tps.error_history = <<>>

C39_SessionStartsAsConstructed ==
    SessionJustStarted => \A f \in ControllerFields : tps[f] = TempoPhaseSyncInit[f]

\* C40: while sync is enabled the target deck's TimeStretchEngine tempo stays
\* within effective_ratio * (1 - M) .. effective_ratio * (1 + M), M being the
\* maximum tempo correction 0.005, however many updates have run
C40_CorrectionsDoNotAccumulate ==
    (tps.sync_enabled /\ tps.target_deck # NoDeck) =>
        LET dk == deck[tps.target_deck]
        IN Abs(dk.engine_tempo - effective_ratio(dk)) * Milli <= 5 * effective_ratio(dk)

====
